---- MODULE Spec2Model ----
(***************************************************************************)
(* ACC Suite: the session reconstructor (acc_suite/summary.py), the        *)
(* summary aggregator, the event detector (acc_suite/logger.py) with the   *)
(* creation of its files (acc_suite/files.py) and the log file it writes   *)
(* (acc_suite/utils.py write_line), and the periodic summary task          *)
(* (acc_suite/scheduler.py, acc_suite/app.py).                             *)
(*                                                                         *)
(* Representation.                                                         *)
(*   - Python's None for a number or a timestamp is the value None below;  *)
(*     JSON true / false / null of a validity flag are the strings         *)
(*     "true", "false", "null".                                            *)
(*   - Timestamps are ISO strings in the program; here they are the        *)
(*     positive integers 1, 2, ... (a later instant is a larger number).   *)
(*   - Fuel and temperatures are decimal numbers in the program; here      *)
(*     they are integers counting hundredths (20.0 is 2000), so that the   *)
(*     rounding of r1 to one decimal is visible.                           *)
(*   - Session type, track, car model, ballast/restrictor and the grip     *)
(*     samples of a session are carried through the reconstructor          *)
(*     unchanged and are left out of the tree.                             *)
(***************************************************************************)
EXTENDS Integers, Sequences, FiniteSets, TLC

None == -999

(* Bound of the replay specifications: number of events in a log. *)
MaxEvents == 4

FUEL_QUALY_THRESHOLD == 2000

VARIABLES
    log,            \* the events read so far by _parse (the log file's prefix)
    sessions,       \* SummaryBuilder.sessions
    current,        \* _parse's local `current`: index in sessions, 0 for None
    last_ts,        \* SummaryBuilder._last_ts
    sector_cache,   \* SummaryBuilder._sector_cache
    last_weather,   \* SummaryBuilder._last_weather
    pc,             \* "closed" | "parsing" | "built" | "rebuilt" | "raised"
    first,          \* the tree of the previous build, once a build is repeated
    pending,        \* the lines of the log file not read yet (scripted replay)
    logger,         \* the ACCLogger object: configuration and rolling state
    mono,           \* utils.monotonic(), the detector's clock
    dpc,            \* ACCLogger.start: "new" | "polling" | "done"
    emitted,        \* the lines written by the last step of the detector, in order
    snap,           \* the snapshot the last tick read
    obs,            \* the validity flags observed since lap tracking was last reset
    files,          \* the tokens of the log/summary file pairs that exist
    sched,          \* the SummaryScheduler, its thread and the main thread around it
    summary_file,   \* the content of the summary file, as a reader sees it
    log_file,       \* the lines of the current log file, in the order they were written
    handle          \* the file object of load_events: lines consumed; <<>> when not open

replayVars == <<log, sessions, current, last_ts, sector_cache, last_weather, pc, first, pending>>

detVars == <<logger, mono, dpc, emitted, snap, obs, files>>

schedVars == <<sched, summary_file>>

fileVars == <<log_file, handle>>

vars == <<replayVars, detVars, schedVars, fileVars>>

(***************************************************************************)
(* utils.py                                                                *)
(***************************************************************************)

(* round(float(value), 1) on a value given in hundredths; ties (a last     *)
(* digit 5) depend on the binary float and are not drawn as inputs.        *)
r1(value) ==
    IF value = None THEN None
    ELSE IF value >= 0 THEN ((value + 5) \div 10) * 10
    ELSE -(((-value) + 5) \div 10) * 10

(* `a or b` on Optional timestamps *)
OrElse(a, b) == IF a # None THEN a ELSE b

(* The digits of n >= 0, zero-padded on the left to 2 and to 3 characters *)
Pad2(n) == IF n < 10 THEN "0" \o ToString(n) ELSE ToString(n)

Pad3(n) == IF n < 10 THEN "00" \o ToString(n)
           ELSE IF n < 100 THEN "0" \o ToString(n) ELSE ToString(n)

(* f"{minutes}:{seconds:06.3f}" for ms >= 0; None gives JSON null *)
fmt_hms(ms) ==
    IF ms = None THEN "null"
    ELSE LET minutes == ms \div 60000
             rest == ms - minutes * 60000
         IN ToString(minutes) \o ":" \o Pad2(rest \div 1000)
                \o "." \o Pad3(rest % 1000)

(***************************************************************************)
(* summary.py: the data classes                                            *)
(***************************************************************************)

LapData(lap, lap_ms, is_valid, fuel_start, fuel_end, sectors_ms) ==
    [lap |-> lap, lap_ms |-> lap_ms, is_valid |-> is_valid,
     fuel_start |-> fuel_start, fuel_end |-> fuel_end, sectors_ms |-> sectors_ms]

StintData(start, fuel_start) ==
    [start |-> start, end |-> None, fuel_start |-> fuel_start, fuel_end |-> None,
     classification |-> "unknown", laps |-> <<>>, weather_air_start |-> None]

SessionData(start) ==
    [start |-> start, end |-> None, stints |-> <<>>, weather_air |-> <<>>]

(* SessionData.active_stint: index of the last stint, 0 for None *)
active_stint(session) == Len(session.stints)

EmptyCache == [k \in {} |-> <<>>]

NoWeather == [air |-> None]

(* A constructor that shares one sessions list between the instances *)
SharedSessionsBuilder ==
    [sessions |-> sessions, current |-> 0, last_ts |-> None,
     sector_cache |-> EmptyCache, last_weather |-> NoWeather]

(* SummaryBuilder.__init__ (current is _parse's local, None at its start) *)
SummaryBuilder ==
    [sessions |-> <<>>, current |-> 0, last_ts |-> None,
     sector_cache |-> EmptyCache, last_weather |-> NoWeather]

(***************************************************************************)
(* summary.py: _close_open_stint, _finalise_session                        *)
(***************************************************************************)

(* _close_open_stint without the `or self._last_ts` fallback *)
close_open_stint_no_fallback(session, ts, lastts) ==
    LET old == session.stints
    IN [session EXCEPT !.stints =
            [i \in DOMAIN old |->
                IF old[i].end = None THEN [old[i] EXCEPT !.end = ts]
                ELSE old[i]]]

close_open_stint(session, ts, lastts) ==
    LET fallback == OrElse(ts, lastts)
        old == session.stints
    IN [session EXCEPT !.stints =
            [i \in DOMAIN old |->
                IF old[i].end = None THEN [old[i] EXCEPT !.end = fallback]
                ELSE old[i]]]

finalise_session(session, ts, lastts) ==
    LET s1 == IF session.end = None
              THEN [session EXCEPT !.end = OrElse(ts, lastts)]
              ELSE session
    IN close_open_stint(s1, ts, lastts)

(***************************************************************************)
(* summary.py: _parse, one loop iteration per event kind.  Each operator   *)
(* takes the builder state b (with last_ts already updated) and the event. *)
(***************************************************************************)

Classify(fuel_start) ==
    IF fuel_start # None /\ fuel_start > FUEL_QUALY_THRESHOLD THEN "race" ELSE "qualy"

(* A session_start handler that opens the new session without closing    *)
(* the one before it                                                       *)
OnSessionStartNoClose(b, ev) ==
    [b EXCEPT !.sessions = Append(@, SessionData(ev.ts)),
              !.current = Len(b.sessions) + 1,
              !.sector_cache = EmptyCache,
              !.last_weather = NoWeather]

OnSessionStart(b, ev) ==
    LET closed == IF b.current # 0
                  THEN [b.sessions EXCEPT ![b.current] =
                            finalise_session(@, ev.ts, b.last_ts)]
                  ELSE b.sessions
    IN [b EXCEPT !.sessions = Append(closed, SessionData(ev.ts)),
                 !.current = Len(closed) + 1,
                 !.sector_cache = EmptyCache,
                 !.last_weather = NoWeather]

OnSessionEnd(b, ev) ==
    [b EXCEPT !.sessions[b.current] =
                  close_open_stint([@ EXCEPT !.end = ev.ts], ev.ts, b.last_ts),
              !.current = 0,
              !.sector_cache = EmptyCache]

OnStintStart(b, ev) ==
    LET fuel == r1(ev.fuel_start)
        stint == [StintData(ev.ts, fuel) EXCEPT
                     !.classification = Classify(fuel),
                     !.weather_air_start = b.last_weather.air]
    IN [b EXCEPT !.sessions[b.current].stints = Append(@, stint)]

OnStintEnd(b, ev) ==
    LET i == active_stint(b.sessions[b.current])
    IN IF i # 0
       THEN [b EXCEPT !.sessions[b.current].stints[i] =
                          [@ EXCEPT !.end = ev.ts, !.fuel_end = r1(ev.fuel_end)]]
       ELSE b

(* A lap_complete handler that ignores the lap when the session has no     *)
(* stint                                                                   *)
OnLapCompleteNoSynth(b, ev) ==
    LET cur == b.sessions[b.current]
        i == active_stint(cur)
        lap == LapData(ev.lap, ev.lap_ms, ev.is_valid,
                       r1(ev.fuel_start), r1(ev.fuel_end), <<>>)
    IN IF i = 0 THEN b
       ELSE [b EXCEPT !.sessions[b.current].stints[i].laps = Append(@, lap)]

(* A lap_complete handler that re-derives the stint's classification from *)
(* the fuel at the end of the lap                                          *)
OnLapCompleteReclassify(b, ev) ==
    LET cur == b.sessions[b.current]
        stints == IF active_stint(cur) = 0
                  THEN Append(cur.stints, StintData(ev.ts, None))
                  ELSE cur.stints
        i == Len(stints)
        lap == LapData(ev.lap, ev.lap_ms, ev.is_valid,
                       r1(ev.fuel_start), r1(ev.fuel_end), <<>>)
    IN [b EXCEPT !.sessions[b.current].stints =
                     [stints EXCEPT ![i].laps = Append(@, lap),
                                    ![i].classification = Classify(r1(ev.fuel_end))]]

OnLapComplete(b, ev) ==
    LET cur == b.sessions[b.current]
        synth == active_stint(cur) = 0
        stints == IF synth THEN Append(cur.stints, StintData(ev.ts, None))
                  ELSE cur.stints
        i == Len(stints)
        sectors == IF ev.lap # None /\ ev.lap \in DOMAIN b.sector_cache
                   THEN b.sector_cache[ev.lap] ELSE <<>>
        cache == IF ev.lap # None
                 THEN [k \in DOMAIN b.sector_cache \ {ev.lap} |-> b.sector_cache[k]]
                 ELSE b.sector_cache
        lap == LapData(ev.lap, ev.lap_ms, ev.is_valid,
                       r1(ev.fuel_start), r1(ev.fuel_end), sectors)
    IN [b EXCEPT !.sessions[b.current].stints =
                     [stints EXCEPT ![i].laps = Append(@, lap)],
                 !.sector_cache = cache]

OnSectorSplit(b, ev) ==
    IF ev.lap # None /\ ev.split_ms # None
    THEN [b EXCEPT !.sector_cache =
             IF ev.lap \in DOMAIN @
             THEN [@ EXCEPT ![ev.lap] = Append(@, ev.split_ms)]
             ELSE @ @@ (ev.lap :> <<ev.split_ms>>)]
    ELSE b

OnWx(b, ev) ==
    LET air == ev.air_temp
        b1 == IF air # None
              THEN [b EXCEPT !.sessions[b.current].weather_air = Append(@, air),
                             !.last_weather.air = air]
              ELSE b
        i == active_stint(b1.sessions[b1.current])
    IN IF i # 0 /\ b1.sessions[b1.current].stints[i].weather_air_start = None
                /\ air # None
       THEN [b1 EXCEPT !.sessions[b1.current].stints[i].weather_air_start = air]
       ELSE b1

(* The body of the for loop of _parse for one event *)
ParseEvent(b, ev) ==
    LET b0 == IF ev.ts # None THEN [b EXCEPT !.last_ts = ev.ts] ELSE b
    IN IF ev.event = "session_start" THEN OnSessionStart(b0, ev)
       ELSE IF b0.current = 0 THEN b0
       ELSE IF ev.event = "session_end" THEN OnSessionEnd(b0, ev)
       ELSE IF ev.event = "stint_start" THEN OnStintStart(b0, ev)
       ELSE IF ev.event = "stint_end" THEN OnStintEnd(b0, ev)
       ELSE IF ev.event = "lap_complete" THEN OnLapComplete(b0, ev)
       ELSE IF ev.event = "sector_split" THEN OnSectorSplit(b0, ev)
       ELSE IF ev.event = "wx" THEN OnWx(b0, ev)
       ELSE b0

(* After the loop: `if current: self._finalise_session(current, None)` *)
ParseEnd(b) ==
    IF b.current # 0
    THEN [b EXCEPT !.sessions[b.current] = finalise_session(@, None, b.last_ts)]
    ELSE b

RECURSIVE ParseLoop(_, _)
ParseLoop(b, evs) ==
    IF evs = <<>> THEN b ELSE ParseLoop(ParseEvent(b, Head(evs)), Tail(evs))

(* SummaryBuilder._parse over a whole log, from builder state b: `current` *)
(* is a local that starts as None on every call.                           *)
ParseAll(b, evs) == ParseEnd(ParseLoop([b EXCEPT !.current = 0], evs))

(***************************************************************************)
(* summary.py: the aggregator                                              *)
(***************************************************************************)

(* Python truthiness of an Optional[int] lap time: neither None nor 0 *)
Truthy(n) == n # None /\ n # 0

RECURSIVE SumSeq(_)
SumSeq(q) == IF q = <<>> THEN 0 ELSE Head(q) + SumSeq(Tail(q))

MinOf(S) == CHOOSE m \in S : \A x \in S : m <= x

IsValid(lap) == lap.is_valid = "true"

IsInvalid(lap) == lap.is_valid = "false"

HasTime(lap) == Truthy(lap.lap_ms)

(* A count of the laps that are not invalid: unknown validity counts too *)
CountNotInvalid(q) == Cardinality({i \in DOMAIN q : ~IsInvalid(q[i])})

CountValid(q) == Cardinality({i \in DOMAIN q : IsValid(q[i])})

CountInvalid(q) == Cardinality({i \in DOMAIN q : IsInvalid(q[i])})

CountTimed(q) == Cardinality({i \in DOMAIN q : HasTime(q[i])})

(* StintData.valid_laps, invalid_laps, best_lap_ms, average_lap_ms *)
valid_laps(stint) == CountValid(stint.laps)

invalid_laps(stint) == CountInvalid(stint.laps)

MaxOf(S) == CHOOSE m \in S : \A x \in S : m >= x

(* best_lap_ms taking the largest valid lap time *)
worst_lap_ms(stint) ==
    LET valid == {stint.laps[i].lap_ms : i \in
                     {j \in DOMAIN stint.laps :
                          IsValid(stint.laps[j]) /\ HasTime(stint.laps[j])}}
    IN IF valid = {} THEN None ELSE MaxOf(valid)

best_lap_ms(stint) ==
    LET valid == {stint.laps[i].lap_ms : i \in
                     {j \in DOMAIN stint.laps :
                          IsValid(stint.laps[j]) /\ HasTime(stint.laps[j])}}
    IN IF valid = {} THEN None ELSE MinOf(valid)

(* int(mean(valid)): the quotient truncated toward zero *)
average_lap_ms(stint) ==
    LET valid == SelectSeq(stint.laps, HasTime)
        total == SumSeq([i \in DOMAIN valid |-> valid[i].lap_ms])
    IN IF valid = <<>> THEN None
       ELSE IF total >= 0 THEN total \div Len(valid)
       ELSE -((-total) \div Len(valid))

(* stint.classification.upper() *)
Upper(cls) ==
    CASE cls = "race" -> "RACE"
      [] cls = "qualy" -> "QUALY"
      [] OTHER -> "UNKNOWN"

(* The span without the clamp at zero *)
SpanSigned(start, end) ==
    IF start # None /\ end # None THEN end - start ELSE None

(* max(0.0, (end - start).total_seconds()) when both parse, else None *)
Span(start, end) ==
    IF start # None /\ end # None
    THEN (IF end - start > 0 THEN end - start ELSE 0)
    ELSE None

RECURSIVE BestsLoopLast(_, _, _)
(* The loop with <= in place of <: of equal bests the last stint is kept *)
BestsLoopLast(stints, cls, best) ==
    IF stints = <<>> THEN best
    ELSE LET stint == Head(stints)
             ms == best_lap_ms(stint)
             better == /\ ms # None
                       /\ stint.classification = cls
                       /\ (best = <<>> \/ ms <= best.lap_time_ms)
         IN BestsLoopLast(Tail(stints), cls,
                          IF better
                          THEN [lap_time_ms |-> ms, lap_time_hms |-> fmt_hms(ms),
                                fuel_pitout_l |-> stint.fuel_start]
                          ELSE best)

RECURSIVE BestsLoop(_, _, _)
(* The loop over session.stints that fills bests_internal[cls]; <<>> is    *)
(* Python's None for the entry.                                            *)
BestsLoop(stints, cls, best) ==
    IF stints = <<>> THEN best
    ELSE LET stint == Head(stints)
             ms == best_lap_ms(stint)
             better == /\ ms # None
                       /\ stint.classification = cls
                       /\ (best = <<>> \/ ms < best.lap_time_ms)
         IN BestsLoop(Tail(stints), cls,
                      IF better
                      THEN [lap_time_ms |-> ms, lap_time_hms |-> fmt_hms(ms),
                            fuel_pitout_l |-> stint.fuel_start]
                      ELSE best)

AllLaps(session) ==
    LET RECURSIVE Cat(_)
        Cat(q) == IF q = <<>> THEN <<>> ELSE Head(q).laps \o Cat(Tail(q))
    IN Cat(session.stints)

(* round(seconds / 60.0, 3), in thousandths of a minute; a whole number   *)
(* of seconds is never halfway between two thousandths.                    *)
round3_min(seconds) ==
    IF seconds >= 0 THEN (seconds * 100 + 3) \div 6
    ELSE -((-seconds * 100 + 3) \div 6)

(* SummaryBuilder._session_block.  lap_time_ms stands for lap_time_s;      *)
(* drive_seconds is the local of that name and driving_duration_min the    *)
(* field computed from it.                                                 *)
session_block(session) ==
    [start_local |-> session.start,
     end_local |-> session.end,
     duration |-> IF session.start # None /\ session.end # None
                  THEN session.end - session.start ELSE None,
     drive_seconds |->
         SumSeq([i \in DOMAIN session.stints |->
                    LET d == Span(session.stints[i].start, session.stints[i].end)
                    IN IF d = None THEN 0 ELSE d]),
     driving_duration_min |->
         round3_min(SumSeq([i \in DOMAIN session.stints |->
                    LET d == Span(session.stints[i].start, session.stints[i].end)
                    IN IF d = None THEN 0 ELSE d])),
     laps |-> [total_closed |-> CountTimed(AllLaps(session)),
               valid |-> CountValid(AllLaps(session)),
               invalid |-> CountInvalid(AllLaps(session))],
     bests |-> [race |-> BestsLoop(session.stints, "race", <<>>),
                qualy |-> BestsLoop(session.stints, "qualy", <<>>)]]

(* SummaryBuilder._stint_summary *)
stint_summary(stint, index) ==
    [index |-> index,
     stint_type |-> Upper(stint.classification),
     time_start_local |-> stint.start,
     time_end_local |-> stint.end,
     driving_duration |-> Span(stint.start, stint.end),
     weather_start_air |-> stint.weather_air_start,
     fuel_pitout |-> stint.fuel_start,
     laps_total |-> Len(stint.laps),
     laps_valid |-> valid_laps(stint),
     laps_invalid |-> invalid_laps(stint),
     avg |-> fmt_hms(average_lap_ms(stint)),
     lap_time_ms |-> best_lap_ms(stint),
     best_lap_time |-> fmt_hms(best_lap_ms(stint))]

(* SummaryBuilder._flatten_stints *)
flatten_stints(sess) ==
    LET RECURSIVE Cat(_)
        Cat(q) == IF q = <<>> THEN <<>> ELSE Head(q).stints \o Cat(Tail(q))
        all == Cat(sess)
    IN [i \in DOMAIN all |-> stint_summary(all[i], i)]

(* The document SummaryBuilder.build returns, after _parse; generated_at   *)
(* is None there and left out.                                             *)
build_doc(sess) ==
    [session |-> [i \in DOMAIN sess |-> session_block(sess[i])],
     stints |-> flatten_stints(sess)]

(***************************************************************************)
(* The replay as a state machine: _parse reads the log one event a step.   *)
(***************************************************************************)

Builder ==
    [sessions |-> sessions, current |-> current, last_ts |-> last_ts,
     sector_cache |-> sector_cache, last_weather |-> last_weather]

SetBuilder(b) ==
    /\ sessions' = b.sessions
    /\ current' = b.current
    /\ last_ts' = b.last_ts
    /\ sector_cache' = b.sector_cache
    /\ last_weather' = b.last_weather

Read(ev) ==
    /\ pc = "parsing"
    /\ Len(log) < MaxEvents
    /\ SetBuilder(ParseEvent(Builder, ev))
    /\ log' = Append(log, ev)
    /\ UNCHANGED <<pc, first, pending, detVars, schedVars, fileVars>>

(* The inputs of the replay specification.  An event carries the clock's   *)
(* time (its position in the log) or no timestamp.                         *)
Clock == Len(log) + 1
TsChoice == {None, Clock}
FuelStartChoice == {None, 2004, 2010}

Ev(kind, ts) == [event |-> kind, ts |-> ts]

StintStart(ts, fuel) == [event |-> "stint_start", ts |-> ts, fuel_start |-> fuel]

LapComplete(ts, lap, lap_ms, is_valid, fuel_start, fuel_end) ==
    [event |-> "lap_complete", ts |-> ts, lap |-> lap, lap_ms |-> lap_ms,
     is_valid |-> is_valid, fuel_start |-> fuel_start, fuel_end |-> fuel_end]

ReadSessionStart == \E ts \in TsChoice : Read(Ev("session_start", ts))

ReadSessionEnd == \E ts \in TsChoice : Read(Ev("session_end", ts))

ReadStintStart == \E f \in FuelStartChoice : Read(StintStart(Clock, f))

ReadStintEnd == Read([event |-> "stint_end", ts |-> Clock, fuel_end |-> 500])

ReadLapComplete == Read(LapComplete(Clock, 1, 94000, "true", 500, 500))

ReadWx == Read([event |-> "wx", ts |-> Clock, air_temp |-> 2150])

ReadHb == Read(Ev("hb", Clock))

(* The for loop ends: the end of the log file *)
EndOfLog ==
    /\ pc = "parsing"
    /\ pending = <<>>
    /\ SetBuilder(ParseEnd(Builder))
    /\ pc' = "built"
    /\ UNCHANGED <<log, first, pending, detVars, schedVars, fileVars>>

(* scheduler.py _write_summary on the next cycle: a fresh SummaryBuilder   *)
(* builds from the same log; the tree and document of the build before it  *)
(* are kept in `first` for comparison.                                     *)
BuildFresh ==
    /\ pc = "built"
    /\ first' = <<[sessions |-> sessions, doc |-> build_doc(sessions)]>>
    /\ SetBuilder(ParseAll(SummaryBuilder, log))
    /\ pc' = "rebuilt"
    /\ UNCHANGED <<log, pending, detVars, schedVars, fileVars>>

DetectorIdle ==
    /\ logger = <<>>
    /\ mono = 0
    /\ dpc = "off"
    /\ emitted = <<>>
    /\ snap = <<>>
    /\ obs = {}
    /\ files = {}

SchedulerIdle ==
    /\ sched = <<>>
    /\ summary_file = <<>>

(* No log file is followed and no reader has one open *)
NoLogFile ==
    /\ log_file = <<>>
    /\ handle = <<>>

Init ==
    /\ log = <<>>
    /\ sessions = <<>>
    /\ current = 0
    /\ last_ts = None
    /\ sector_cache = EmptyCache
    /\ last_weather = NoWeather
    /\ pc = "parsing"
    /\ first = <<>>
    /\ pending = <<>>
    /\ DetectorIdle
    /\ SchedulerIdle
    /\ NoLogFile

Next ==
    \/ ReadSessionStart
    \/ ReadSessionEnd
    \/ ReadStintStart
    \/ ReadStintEnd
    \/ ReadLapComplete
    \/ ReadWx
    \/ ReadHb
    \/ EndOfLog
    \/ BuildFresh

Spec == Init /\ [][Next]_vars

(***************************************************************************)
(* MalformedSpec: the replay of a log that also holds lines that are not   *)
(* events.  A line that is not an event has an empty event name and says   *)
(* what its text is: blank, invalid JSON, a line cut in the middle, or     *)
(* valid JSON that is not an object (a number, a string, a list, null).    *)
(***************************************************************************)

MalformedLines ==
    { [event |-> "", text |-> t] : t \in {"blank", "invalid", "cut", "scalar"} }

(* load_events: the line is not blank and json.loads accepts it *)
IsJson(line) == line.event # "" \/ line.text = "scalar"

(* _parse reads a line that is not an event.  load_events skips it when it *)
(* is blank or json.loads rejects it; otherwise it is yielded, and         *)
(* event.get raises AttributeError, since the value is not a dict.         *)
ReadMalformed ==
    \E line \in MalformedLines :
        /\ pc = "parsing"
        /\ Len(log) < MaxEvents
        /\ log' = Append(log, line)
        /\ pc' = IF IsJson(line) THEN "raised" ELSE pc
        /\ UNCHANGED <<sessions, current, last_ts, sector_cache, last_weather,
                       first, pending, detVars, schedVars, fileVars>>

MalformedNext ==
    \/ ReadMalformed
    \/ ReadSessionStart
    \/ ReadSessionEnd
    \/ ReadStintStart
    \/ ReadLapComplete
    \/ EndOfLog

MalformedSpec == Init /\ [][MalformedNext]_vars

(***************************************************************************)
(* Scripted replay: the log file is fixed at the start and _parse reads    *)
(* it line by line.  The scripts are the end-to-end scenario of the        *)
(* specification with its fuel, lap times and validity flags varied.       *)
(***************************************************************************)

Scenario(fuel, ms1, v1, ms2, v2) ==
    << Ev("session_start", 1),
       StintStart(2, fuel),
       LapComplete(3, 1, ms1, v1, fuel, fuel),
       LapComplete(4, 2, ms2, v2, fuel, fuel),
       [event |-> "stint_end", ts |-> 5, fuel_end |-> fuel],
       Ev("session_end", 6) >>

Scripts ==
    { Scenario(f, ms1, v1, ms2, v2) :
        f \in {None, 2000, 3000}, ms1 \in {94000, 95000}, ms2 \in {94000, 95000},
        v1 \in {"true", "false", "null"}, v2 \in {"true", "false", "null"} }

EndToEnd == Scenario(3000, 95000, "true", 94000, "true")

ReadLine ==
    /\ pc = "parsing"
    /\ pending # <<>>
    /\ SetBuilder(ParseEvent(Builder, Head(pending)))
    /\ log' = Append(log, Head(pending))
    /\ pending' = Tail(pending)
    /\ UNCHANGED <<pc, first, detVars, schedVars, fileVars>>

ScenarioInit ==
    /\ log = <<>>
    /\ sessions = <<>>
    /\ current = 0
    /\ last_ts = None
    /\ sector_cache = EmptyCache
    /\ last_weather = NoWeather
    /\ pc = "parsing"
    /\ first = <<>>
    /\ pending \in Scripts
    /\ DetectorIdle
    /\ SchedulerIdle
    /\ NoLogFile

ScenarioNext == ReadLine \/ EndOfLog

ScenarioSpec == ScenarioInit /\ [][ScenarioNext]_vars

(***************************************************************************)
(* AggSpec: scripted replay of sessions of two stints and three laps.  The *)
(* first stint_start has a timestamp or none, or is absent (the first lap  *)
(* then finds no stint); the stint_end of the first stint is stamped after *)
(* or before the stint's start (a revised clock); the starting fuels put   *)
(* the stints in the same or in different classifications; each lap has a  *)
(* time or none and a validity flag or none.                               *)
(***************************************************************************)

LapChoice ==
    { <<94000, "true">>, <<95000, "true">>, <<94000, "false">>,
      <<None, "true">>, <<94000, "null">> }

AggLap(ts, n, c) == LapComplete(ts, n, c[1], c[2], 500, 500)

AggTail(e1, f2, b, c) ==
    << [event |-> "stint_end", ts |-> e1, fuel_end |-> 500],
       StintStart(5, f2),
       AggLap(6, 2, b),
       AggLap(7, 3, c),
       Ev("session_end", 9) >>

AggScripts ==
    { << Ev("session_start", 1), StintStart(s1, f1), AggLap(3, 1, a) >>
          \o AggTail(e1, f2, b, c) :
        s1 \in {None, 2}, f1 \in {2000, 3000}, a \in LapChoice, e1 \in {1, 4},
        f2 \in {2000, 3000, 3100}, b \in LapChoice, c \in LapChoice }
    \cup
    { << Ev("session_start", 1), AggLap(3, 1, a) >> \o AggTail(e1, f2, b, c) :
        a \in LapChoice, e1 \in {1, 4},
        f2 \in {2000, 3000, 3100}, b \in LapChoice, c \in LapChoice }

AggInit ==
    /\ log = <<>>
    /\ sessions = <<>>
    /\ current = 0
    /\ last_ts = None
    /\ sector_cache = EmptyCache
    /\ last_weather = NoWeather
    /\ pc = "parsing"
    /\ first = <<>>
    /\ pending \in AggScripts
    /\ DetectorIdle
    /\ SchedulerIdle
    /\ NoLogFile

AggNext == ReadLine \/ EndOfLog

AggSpec == AggInit /\ [][AggNext]_vars

(***************************************************************************)
(* utils.py: as_int_ms                                                     *)
(***************************************************************************)

SENTINEL_LAST_BEST_MS == 2147483647

(* as_int_ms with the upper limit itself accepted *)
as_int_ms_inclusive(value) ==
    IF value = None THEN None
    ELSE IF value <= 0 \/ value > 100 * 60 * 1000 \/ value = SENTINEL_LAST_BEST_MS
         THEN None
    ELSE value

(* The raw value is an integer count of milliseconds, on which            *)
(* int(round(float(value))) changes nothing.                               *)
as_int_ms(value) ==
    IF value = None THEN None
    ELSE IF value <= 0 \/ value >= 100 * 60 * 1000 \/ value = SENTINEL_LAST_BEST_MS
         THEN None
    ELSE value

(***************************************************************************)
(* logger.py: ACCLogger.  A snapshot sm is a record of the fields start()  *)
(* reads; sm.avail = FALSE is a read that returns nothing (or lacks        *)
(* Physics, Graphics or Static).  Sector count, car model, ballast,        *)
(* restrictor and speed pass through to the events and are left out.       *)
(***************************************************************************)

WxDelta == 50

B3(flag) == IF flag THEN "true" ELSE "false"

Abs(x) == IF x < 0 THEN -x ELSE x

NoWxVals ==
    [air |-> None, track |-> None, grip |-> "null", rain |-> "null",
     clouds |-> None, wind_spd |-> None, wind_dir |-> None]

(* ACCLogger.__init__ *)
ACCLogger(wx_every, hb_every) ==
    [wx_every |-> IF wx_every > 0 THEN wx_every ELSE 0,
     hb_every |-> IF hb_every > 0 THEN hb_every ELSE 0,
     wx_delta |-> WxDelta,
     fh |-> FALSE,
     prev_session_key |-> "null",
     have_session_open |-> FALSE,
     prev_in_pit_eff |-> "null",
     prev_sector_idx |-> None,
     prev_completed |-> None,
     lap_valid_acc |-> "null",
     lap_start_fuel |-> None,
     last_wx_emit |-> 0,
     last_hb_emit |-> 0,
     last_wx_vals |-> NoWxVals,
     stop_flag |-> FALSE]

(* The state threaded through one step of start(): the logger, the lines  *)
(* written so far in the step, and the number of files opened in the step *)
(* before a line was written (0: the file open when the step began).      *)
Emit(st, payload) ==
    IF st.l.fh THEN [st EXCEPT !.out = Append(@, payload @@ [file |-> st.rot])]
    ELSE st

(* ACCLogger._open_new_file.  LogFileManager.create names the pair after   *)
(* the second of the wall clock (token) and touches the log file with      *)
(* exist_ok=False: FileExistsError when a pair of that second exists; the  *)
(* old file has been closed by then and self.fh still refers to it.        *)
open_new_file(st, now, token) ==
    LET closed == IF st.l.fh
                  THEN [st EXCEPT !.out = Append(@, [event |-> "session_end", ts |-> now,
                                                     file |-> st.rot])]
                  ELSE st
    IN IF token \in st.files
       THEN [closed EXCEPT !.raised = TRUE]
       ELSE [closed EXCEPT !.l.fh = TRUE, !.rot = @ + 1, !.files = @ \cup {token}]

SessionStartEvent(now) == [event |-> "session_start", ts |-> now]

(* A session boundary that keeps writing to the file that is open when    *)
(* the session key changes                                                 *)
SessionBoundaryNoRotation(st, sm, now, token) ==
    IF st.l.prev_session_key = "null"
    THEN LET o == open_new_file(st, now, token)
         IN IF o.raised THEN o
            ELSE [Emit(o, SessionStartEvent(now))
                     EXCEPT !.l.have_session_open = TRUE,
                            !.l.prev_session_key = sm.session_key]
    ELSE IF sm.session_key # st.l.prev_session_key
    THEN LET ended == IF st.l.have_session_open
                      THEN [Emit(st, [event |-> "session_end", ts |-> now])
                                EXCEPT !.l.have_session_open = FALSE]
                      ELSE st
         IN [Emit(ended, SessionStartEvent(now))
                EXCEPT !.l.have_session_open = TRUE,
                       !.l.prev_in_pit_eff = "null",
                       !.l.prev_sector_idx = None,
                       !.l.prev_completed = None,
                       !.l.lap_valid_acc = "null",
                       !.l.lap_start_fuel = None,
                       !.l.prev_session_key = sm.session_key]
    ELSE st

(* start(), lines 156-192: the session boundary.  When _open_new_file     *)
(* raises, nothing after it is executed.                                   *)
SessionBoundary(st, sm, now, token) ==
    IF st.l.prev_session_key = "null"
    THEN LET o == open_new_file(st, now, token)
         IN IF o.raised THEN o
            ELSE [Emit(o, SessionStartEvent(now))
                     EXCEPT !.l.have_session_open = TRUE,
                            !.l.prev_session_key = sm.session_key]
    ELSE IF sm.session_key # st.l.prev_session_key
    THEN LET ended == IF st.l.have_session_open
                      THEN [Emit(st, [event |-> "session_end", ts |-> now])
                                EXCEPT !.l.have_session_open = FALSE]
                      ELSE st
             o == open_new_file(ended, now, token)
         IN IF o.raised THEN o
            ELSE [Emit(o, SessionStartEvent(now))
                     EXCEPT !.l.have_session_open = TRUE,
                            !.l.prev_in_pit_eff = "null",
                            !.l.prev_sector_idx = None,
                            !.l.prev_completed = None,
                            !.l.lap_valid_acc = "null",
                            !.l.lap_start_fuel = None,
                            !.l.prev_session_key = sm.session_key]
    ELSE st

(* The stint_start branch, the same in both places it occurs *)
EmitStintStart(st, sm, now) ==
    [Emit(st, [event |-> "stint_start", ts |-> now, fuel_start |-> r1(sm.fuel),
               completed_lap |-> sm.completed_lap])
        EXCEPT !.l.prev_completed = sm.completed_lap,
               !.l.lap_valid_acc = "null",
               !.l.lap_start_fuel = r1(sm.fuel),
               !.l.prev_sector_idx = sm.current_sector_index]

(* A pit transition that reacts to edges only: the first observed value is *)
(* recorded and no stint_start is written for it                           *)
PitTransitionEdgesOnly(st, sm, now) ==
    LET in_pit_eff == sm.is_in_pit \/ sm.is_in_pit_lane
        st1 == IF st.l.prev_in_pit_eff = "true" /\ ~in_pit_eff
               THEN EmitStintStart(st, sm, now) ELSE st
        st2 == IF st1.l.prev_in_pit_eff = "false" /\ in_pit_eff
               THEN Emit(st1, [event |-> "stint_end", ts |-> now,
                               fuel_end |-> r1(sm.fuel)])
               ELSE st1
    IN [st2 EXCEPT !.l.prev_in_pit_eff = B3(in_pit_eff)]

(* start(), lines 194-236: the pit transition *)
PitTransition(st, sm, now) ==
    LET in_pit_eff == sm.is_in_pit \/ sm.is_in_pit_lane
    IN IF st.l.prev_in_pit_eff = "null"
       THEN LET st1 == [st EXCEPT !.l.prev_in_pit_eff = B3(in_pit_eff)]
            IN IF ~in_pit_eff THEN EmitStintStart(st1, sm, now) ELSE st1
       ELSE LET st1 == IF st.l.prev_in_pit_eff = "true" /\ ~in_pit_eff
                       THEN EmitStintStart(st, sm, now) ELSE st
                st2 == IF st1.l.prev_in_pit_eff = "false" /\ in_pit_eff
                       THEN Emit(st1, [event |-> "stint_end", ts |-> now,
                                       fuel_end |-> r1(sm.fuel)])
                       ELSE st1
            IN [st2 EXCEPT !.l.prev_in_pit_eff = B3(in_pit_eff)]

(* A validity accumulator that keeps the latest observation only *)
AccumulateLatest(acc, flag) == IF flag # "null" THEN flag ELSE acc

(* start(), lines 238-242: the validity accumulator *)
AccumulateValidity(acc, flag) ==
    IF flag # "null"
    THEN (IF acc = "null" THEN flag
          ELSE IF acc = "true" /\ flag = "true" THEN "true" ELSE "false")
    ELSE acc

(* A sector rule that writes a split on every change of the index, the     *)
(* wrap from the last sector to the first included                         *)
SectorSplitAnyChange(st, sm, now) ==
    LET cur == sm.current_sector_index
        prev == st.l.prev_sector_idx
        split_ms == as_int_ms(sm.last_sector_time)
    IN IF cur # None /\ prev # None /\ cur # prev
       THEN LET st1 == IF split_ms # None /\ split_ms > 0
                       THEN Emit(st, [event |-> "sector_split", ts |-> now,
                                      lap |-> sm.completed_lap, sector_index |-> prev,
                                      split_ms |-> split_ms])
                       ELSE st
            IN [st1 EXCEPT !.l.prev_sector_idx = cur]
       ELSE IF prev = None /\ cur # None
       THEN [st EXCEPT !.l.prev_sector_idx = cur]
       ELSE st

(* start(), lines 244-265: the sector split *)
SectorSplit(st, sm, now) ==
    LET cur == sm.current_sector_index
        prev == st.l.prev_sector_idx
        split_ms == as_int_ms(sm.last_sector_time)
    IN IF cur # None /\ prev # None /\ cur # prev
       THEN LET st1 == IF ((prev = 0 /\ cur = 1) \/ (prev = 1 /\ cur = 2))
                          /\ split_ms # None /\ split_ms > 0
                       THEN Emit(st, [event |-> "sector_split", ts |-> now,
                                      lap |-> sm.completed_lap, sector_index |-> prev,
                                      split_ms |-> split_ms])
                       ELSE st
            IN [st1 EXCEPT !.l.prev_sector_idx = cur]
       ELSE IF prev = None /\ cur # None
       THEN [st EXCEPT !.l.prev_sector_idx = cur]
       ELSE st

(* A lap completion that leaves the lap-start fuel as it was *)
LapCompletionKeepsFuel(st, sm, now) ==
    IF sm.completed_lap # None /\ st.l.prev_completed # None
          /\ sm.completed_lap > st.l.prev_completed
    THEN [Emit(st, [event |-> "lap_complete", ts |-> now, lap |-> sm.completed_lap,
                    lap_ms |-> as_int_ms(sm.last_time),
                    is_valid |-> st.l.lap_valid_acc,
                    fuel_start |-> st.l.lap_start_fuel,
                    fuel_end |-> r1(sm.fuel)])
             EXCEPT !.l.prev_completed = sm.completed_lap,
                    !.l.lap_valid_acc = "null"]
    ELSE IF st.l.prev_completed = None
    THEN [st EXCEPT !.l.prev_completed = sm.completed_lap]
    ELSE st

(* A lap completion that fires on any change of the lap counter *)
LapCompletionAnyChange(st, sm, now) ==
    IF sm.completed_lap # None /\ st.l.prev_completed # None
          /\ sm.completed_lap # st.l.prev_completed
    THEN [Emit(st, [event |-> "lap_complete", ts |-> now, lap |-> sm.completed_lap,
                    lap_ms |-> as_int_ms(sm.last_time),
                    is_valid |-> st.l.lap_valid_acc,
                    fuel_start |-> st.l.lap_start_fuel,
                    fuel_end |-> r1(sm.fuel)])
             EXCEPT !.l.prev_completed = sm.completed_lap,
                    !.l.lap_valid_acc = "null",
                    !.l.lap_start_fuel = r1(sm.fuel)]
    ELSE IF st.l.prev_completed = None
    THEN [st EXCEPT !.l.prev_completed = sm.completed_lap]
    ELSE st

(* start(), lines 267-290: the lap completion *)
LapCompletion(st, sm, now) ==
    IF sm.completed_lap # None /\ st.l.prev_completed # None
          /\ sm.completed_lap > st.l.prev_completed
    THEN [Emit(st, [event |-> "lap_complete", ts |-> now, lap |-> sm.completed_lap,
                    lap_ms |-> as_int_ms(sm.last_time),
                    is_valid |-> st.l.lap_valid_acc,
                    fuel_start |-> st.l.lap_start_fuel,
                    fuel_end |-> r1(sm.fuel)])
             EXCEPT !.l.prev_completed = sm.completed_lap,
                    !.l.lap_valid_acc = "null",
                    !.l.lap_start_fuel = r1(sm.fuel)]
    ELSE IF st.l.prev_completed = None
    THEN [st EXCEPT !.l.prev_completed = sm.completed_lap]
    ELSE st

(* The local function changed(a, b, thr) of start() *)
changed(a, b, thr) ==
    IF a = None /\ b = None THEN FALSE
    ELSE IF a = None \/ b = None THEN TRUE
    ELSE Abs(a - b) >= thr

(* The weather values of a snapshot, as start() reads them *)
WxVals(sm) ==
    [air |-> r1(sm.air), track |-> r1(sm.road_temp), grip |-> sm.grip,
     rain |-> sm.rain, clouds |-> r1(sm.clouds), wind_spd |-> r1(sm.wind_speed),
     wind_dir |-> r1(sm.wind_direction)]

(* The weather test with the interval compared by > instead of >= *)
WeatherNeedStrict(l, v, now) ==
    \/ changed(l.last_wx_vals.air, v.air, l.wx_delta)
    \/ changed(l.last_wx_vals.track, v.track, l.wx_delta)
    \/ l.last_wx_vals.grip # v.grip
    \/ l.last_wx_vals.rain # v.rain
    \/ l.last_wx_vals.wind_spd # v.wind_spd
    \/ l.last_wx_vals.wind_dir # v.wind_dir
    \/ (now - l.last_wx_emit) > l.wx_every

(* start(), lines 300-316: the value of `need` *)
WeatherNeed(l, v, now) ==
    \/ changed(l.last_wx_vals.air, v.air, l.wx_delta)
    \/ changed(l.last_wx_vals.track, v.track, l.wx_delta)
    \/ l.last_wx_vals.grip # v.grip
    \/ l.last_wx_vals.rain # v.rain
    \/ l.last_wx_vals.wind_spd # v.wind_spd
    \/ l.last_wx_vals.wind_dir # v.wind_dir
    \/ (now - l.last_wx_emit) >= l.wx_every

(* start(), lines 292-343: the weather event *)
Weather(st, sm, now, now_mono) ==
    LET v == WxVals(sm)
    IN IF st.l.wx_every > 0 /\ WeatherNeed(st.l, v, now_mono)
       THEN [Emit(st, [event |-> "wx", ts |-> now, air_temp |-> v.air,
                       track_temp |-> v.track, grip |-> v.grip,
                       rain_intensity |-> v.rain, cloud_level |-> v.clouds,
                       wind_speed |-> v.wind_spd, wind_direction |-> v.wind_dir])
                EXCEPT !.l.last_wx_emit = now_mono, !.l.last_wx_vals = v]
       ELSE st

(* start(), lines 345-357: the heartbeat *)
Heartbeat(st, sm, now, now_mono) ==
    IF st.l.hb_every > 0 /\ (now_mono - st.l.last_hb_emit) >= st.l.hb_every
    THEN [Emit(st, [event |-> "hb", ts |-> now, fuel |-> r1(sm.fuel),
                    is_valid_lap |-> sm.is_valid_lap])
             EXCEPT !.l.last_hb_emit = now_mono]
    ELSE st

(* One iteration of the while loop of start() on an available snapshot.   *)
(* The clock counts seconds, so its value is also the token create() would *)
(* give a new file pair.                                                   *)
ProcessSnapshot(l, sm, now, now_mono, existing) ==
    LET s0 == [l |-> l, out |-> <<>>, rot |-> 0, files |-> existing, raised |-> FALSE]
        s1 == SessionBoundary(s0, sm, now, now_mono)
        s2 == PitTransition(s1, sm, now)
        s3 == [s2 EXCEPT !.l.lap_valid_acc = AccumulateValidity(@, sm.is_valid_lap)]
        s4 == SectorSplit(s3, sm, now)
        s5 == LapCompletion(s4, sm, now)
        s6 == Weather(s5, sm, now, now_mono)
    IN IF s1.raised THEN s1 ELSE Heartbeat(s6, sm, now, now_mono)

(***************************************************************************)
(* The detector as a state machine                                         *)
(***************************************************************************)

(* Bound of the detector specifications: the clock's last instant *)
MaxMono == 4

Kinds(out) == {out[i].event : i \in DOMAIN out}

(* start() up to the while loop: the first file is opened *)
StartLogger ==
    /\ dpc = "new"
    /\ LET st == open_new_file([l |-> logger, out |-> <<>>, rot |-> 0,
                                 files |-> files, raised |-> FALSE], mono + 1, mono)
       IN /\ logger' = st.l
          /\ emitted' = st.out
          /\ files' = st.files
          /\ dpc' = IF st.raised THEN "crashed" ELSE "polling"
    /\ UNCHANGED <<mono, snap, obs, replayVars, schedVars, fileVars>>

(* A skipped tick that forgets the pit flag *)
SkipTickForgetsPit(l) == [l EXCEPT !.prev_in_pit_eff = "null"]

(* start(), lines 95-105: nothing was read, or a part is missing; sleep    *)
(* and `continue`.  The logger after the tick.                             *)
SkipTick(l) == l

(* One iteration of the loop, dt after the one before it.  iso_now() is   *)
(* one more than monotonic(): the two clocks run together and a           *)
(* timestamp is never zero.                                                *)
Tick(sm, dt) ==
    /\ dpc = "polling"
    /\ ~logger.stop_flag
    /\ mono + dt <= MaxMono
    /\ mono' = mono + dt
    /\ snap' = sm
    /\ IF sm.avail
       THEN LET st == ProcessSnapshot(logger, sm, mono + dt + 1, mono + dt, files)
                reset == \/ "lap_complete" \in Kinds(emitted)
                         \/ "session_start" \in Kinds(st.out)
                         \/ "stint_start" \in Kinds(st.out)
            IN /\ logger' = st.l
               /\ emitted' = st.out
               /\ files' = st.files
               /\ dpc' = IF st.raised THEN "crashed" ELSE dpc
               /\ obs' = (IF reset THEN {} ELSE obs)
                             \cup (IF sm.is_valid_lap # "null" THEN {sm.is_valid_lap} ELSE {})
       ELSE /\ emitted' = <<>>
            /\ logger' = SkipTick(logger)
            /\ obs' = (IF "lap_complete" \in Kinds(emitted) THEN {} ELSE obs)
            /\ UNCHANGED <<files, dpc>>
    /\ UNCHANGED <<replayVars, schedVars>>

(* app.py handle_sig: the stop flag is set *)
SetStop ==
    /\ dpc = "polling"
    /\ ~logger.stop_flag
    /\ logger' = [logger EXCEPT !.stop_flag = TRUE]
    /\ UNCHANGED <<mono, dpc, emitted, snap, obs, files, replayVars, schedVars, fileVars>>

(* start() after the loop: the closing session_end, the file is closed *)
LoopExit ==
    /\ dpc = "polling"
    /\ logger.stop_flag
    /\ LET st0 == [l |-> logger, out |-> <<>>, rot |-> 0]
           st == IF logger.have_session_open
                 THEN Emit(st0, [event |-> "session_end", ts |-> mono + 1])
                 ELSE st0
       IN /\ emitted' = st.out
          /\ logger' = [st.l EXCEPT !.fh = FALSE]
    /\ dpc' = "done"
    /\ UNCHANGED <<mono, snap, obs, files, replayVars, schedVars, fileVars>>

(* The snapshot of an unavailable read, and the baseline snapshot *)
Unavailable == [avail |-> FALSE]

Snapshot ==
    [avail |-> TRUE, session_key |-> "K1", is_in_pit |-> FALSE, is_in_pit_lane |-> FALSE,
     current_sector_index |-> 0, is_valid_lap |-> "true", fuel |-> 3000,
     completed_lap |-> 0, last_time |-> 94000, last_sector_time |-> 30000,
     air |-> 2000, road_temp |-> 3000, grip |-> "g1", rain |-> "dry", clouds |-> 10,
     wind_speed |-> 0, wind_direction |-> 0]

ReplayIdle ==
    /\ log = <<>>
    /\ sessions = <<>>
    /\ current = 0
    /\ last_ts = None
    /\ sector_cache = EmptyCache
    /\ last_weather = NoWeather
    /\ pc = "parsing"
    /\ first = <<>>
    /\ pending = <<>>

DetectorNew(wx_every, hb_every) ==
    /\ logger = ACCLogger(wx_every, hb_every)
    /\ mono = 0
    /\ dpc = "new"
    /\ emitted = <<>>
    /\ snap = Unavailable
    /\ obs = {}
    /\ files = {}
    /\ SchedulerIdle
    /\ NoLogFile

(***************************************************************************)
(* DetSpec: the detector with weather and heartbeat switched off           *)
(* (--wx-every 0 --hb-every 0), on snapshots that vary the session key,    *)
(* the pit flags, the validity flag, the lap counter and the fuel (30.0 or *)
(* 28.74 litres), and on snapshots                                         *)
(* that vary the sector index and the raw lap and sector times.  A tick    *)
(* comes in the same second as the step before it or in the next.          *)
(***************************************************************************)

StructSnapshots ==
    { [Snapshot EXCEPT !.is_in_pit = p, !.is_valid_lap = v, !.completed_lap = c] :
        p \in BOOLEAN, v \in {"null", "true", "false"}, c \in {0, 1, 2} }
    \cup { [Snapshot EXCEPT !.is_in_pit_lane = TRUE] }
    \cup { [Snapshot EXCEPT !.fuel = 2874, !.completed_lap = c] : c \in {1, 2} }
    \cup { [Snapshot EXCEPT !.session_key = "K2", !.is_valid_lap = v, !.completed_lap = c] :
             v \in {"null", "true", "false"}, c \in {0, 1} }

RawTimes == {None, -1, 0, 1, 5999999, 6000000, SENTINEL_LAST_BEST_MS}

CanonSnapshots ==
    { [Snapshot EXCEPT !.completed_lap = c, !.last_time = t] :
        c \in {1, 2}, t \in RawTimes }
    \cup { [Snapshot EXCEPT !.current_sector_index = sec, !.last_sector_time = u] :
             sec \in {1, 2}, u \in RawTimes }

DetInit == ReplayIdle /\ DetectorNew(0, 0)

(* Bound of DetSpec: the last second of its clock *)
MaxSeconds == 2

DetTick ==
    \E sm \in StructSnapshots \cup CanonSnapshots \cup {Unavailable}, dt \in {0, 1} :
        mono + dt <= MaxSeconds /\ Tick(sm, dt) /\ UNCHANGED fileVars

DetNext == StartLogger \/ DetTick \/ SetStop \/ LoopExit

DetSpec == DetInit /\ [][DetNext]_vars

(***************************************************************************)
(* WxSpec: the detector with weather every 2 and heartbeat every 1 time    *)
(* unit, on snapshots that vary the air temperature and one other weather  *)
(* field at a time; ticks are 0, 1 or 2 time units apart.                  *)
(***************************************************************************)

AirChoice == {None, 2000, 2040, 2060}

WxSnapshots ==
    { [Snapshot EXCEPT !.air = a] : a \in AirChoice }
    \cup { [Snapshot EXCEPT !.air = a, !.road_temp = 3060] : a \in AirChoice }
    \cup { [Snapshot EXCEPT !.air = a, !.grip = "g2"] : a \in AirChoice }
    \cup { [Snapshot EXCEPT !.air = a, !.rain = "wet"] : a \in AirChoice }
    \cup { [Snapshot EXCEPT !.air = a, !.wind_speed = 10] : a \in AirChoice }
    \cup { [Snapshot EXCEPT !.air = a, !.wind_direction = 90] : a \in AirChoice }
    \cup { [Snapshot EXCEPT !.air = a, !.clouds = 20] : a \in AirChoice }

WxInit == ReplayIdle /\ DetectorNew(2, 1)

WxTick ==
    \E sm \in WxSnapshots \cup {Unavailable}, dt \in {0, 1, 2} :
        Tick(sm, dt) /\ UNCHANGED fileVars

WxNext == StartLogger \/ WxTick \/ SetStop \/ LoopExit

WxSpec == WxInit /\ [][WxNext]_vars

(***************************************************************************)
(* scheduler.py and app.py: the periodic summary task, the final flush and *)
(* the summary file.  A summary document is written in NChunks pieces      *)
(* (json.dump writes piece by piece into a buffered file; the pieces reach *)
(* the file when the buffer fills and at close).  The document of version  *)
(* v is the summary of a log of v events; version 0 is also the skeleton   *)
(* create() writes.  A position of the file no write has filled is a Hole. *)
(***************************************************************************)

NChunks == 2

(* Bounds of SchedSpec: events appended to the log, cycles of the task *)
MaxVersions == 2

MaxCycles == 3

Chunk(v, k) == [v |-> v, k |-> k]

Hole == [v |-> -1, k |-> 0]

Doc(v) == [k \in 1..NChunks |-> Chunk(v, k)]

(* write() at offset off of a file opened with "w" *)
WriteAt(f, off, c) ==
    IF off < Len(f) THEN [f EXCEPT ![off + 1] = c]
    ELSE f \o [i \in 1..(off - Len(f)) |-> Hole] \o <<c>>

Writer(at) == [pc |-> at, v |-> 0, off |-> 0]

(* SummaryScheduler.__init__ and start(): the thread is at the head of the *)
(* loop of _run; main is in logger.start().                                *)
SummaryScheduler ==
    [stop_flag |-> FALSE, current_paths |-> FALSE, log_len |-> 0, cycles |-> 0,
     outcomes |-> <<>>, thread |-> Writer("check"), flush |-> Writer("idle"),
     main |-> "logging"]

(* A task whose thread dies of the exception of a cycle *)
cycle_failed_uncaught(sc) ==
    [sc EXCEPT !.thread.pc = "ended", !.outcomes = Append(@, "failed")]

(* _run: `except Exception as exc: print(...)`, back to the loop's head *)
cycle_failed(sc) ==
    [sc EXCEPT !.thread.pc = "check", !.outcomes = Append(@, "failed")]

(* _run: _write_summary returned *)
cycle_done(sc) ==
    [sc EXCEPT !.thread.pc = "check", !.outcomes = Append(@, "ok")]

(* The end of a _write_summary of the thread or of flush_now, which main   *)
(* wraps in try/except.                                                    *)
Returned(who, sc) == IF who = "thread" THEN cycle_done(sc) ELSE [sc EXCEPT !.flush.pc = "done"]

Raised(who, sc) == IF who = "thread" THEN cycle_failed(sc) ELSE [sc EXCEPT !.flush.pc = "done"]

Alive == sched.main # "exited"

(* logger._open_new_file: create() writes the skeleton, on_rotate attaches *)
Attach ==
    /\ sched.main = "logging"
    /\ ~sched.current_paths
    /\ sched' = [sched EXCEPT !.current_paths = TRUE]
    /\ summary_file' = Doc(0)
    /\ UNCHANGED <<replayVars, detVars, fileVars>>

(* The detector appends an event to the log *)
LogAppend ==
    /\ sched.main = "logging"
    /\ sched.current_paths
    /\ sched.log_len < MaxVersions
    /\ sched' = [sched EXCEPT !.log_len = @ + 1]
    /\ UNCHANGED <<summary_file, replayVars, detVars, fileVars>>

(* _run: `while not self.stop_flag` *)
LoopCheck ==
    /\ Alive
    /\ sched.thread.pc = "check"
    /\ sched' = [sched EXCEPT !.thread.pc = IF sched.stop_flag THEN "ended" ELSE "sleep"]
    /\ UNCHANGED <<summary_file, replayVars, detVars, fileVars>>

(* _run: the sleep is over; `if not self.current_paths: continue` *)
Wake ==
    /\ Alive
    /\ sched.thread.pc = "sleep"
    /\ IF sched.current_paths
       THEN /\ sched.cycles < MaxCycles
            /\ sched' = [sched EXCEPT !.thread.pc = "build", !.cycles = @ + 1]
       ELSE sched' = [sched EXCEPT !.thread.pc = "check"]
    /\ UNCHANGED <<summary_file, replayVars, detVars, fileVars>>

(* _write_summary: SummaryBuilder(path).build() *)
BuildSummary(who) ==
    /\ Alive
    /\ sched[who].pc = "build"
    /\ sched' = [sched EXCEPT ![who].pc = "open", ![who].v = sched.log_len]
    /\ UNCHANGED <<summary_file, replayVars, detVars, fileVars>>

(* _write_summary: open(paths.json_path, "w") truncates the file *)
OpenSummary(who) ==
    /\ Alive
    /\ sched[who].pc = "open"
    /\ sched' = [sched EXCEPT ![who].pc = "dump", ![who].off = 0]
    /\ summary_file' = <<>>
    /\ UNCHANGED <<replayVars, detVars, fileVars>>

(* _write_summary: json.dump, one piece reaches the file; after the last   *)
(* the file is closed and _write_summary returns.                          *)
DumpSummary(who) ==
    /\ Alive
    /\ sched[who].pc = "dump"
    /\ summary_file' = WriteAt(summary_file, sched[who].off,
                               Chunk(sched[who].v, sched[who].off + 1))
    /\ sched' = IF sched[who].off + 1 = NChunks
                THEN Returned(who, sched)
                ELSE [sched EXCEPT ![who].off = @ + 1]
    /\ UNCHANGED <<replayVars, detVars, fileVars>>

(* _write_summary raises: the log cannot be read or reconstructed, the    *)
(* summary file cannot be opened, a write fails.                           *)
FailSummary(who) ==
    /\ Alive
    /\ sched[who].pc \in {"build", "open", "dump"}
    /\ sched' = Raised(who, sched)
    /\ UNCHANGED <<summary_file, replayVars, detVars, fileVars>>

(* app.py handle_sig: both stop flags are set, logger.start() returns and  *)
(* main calls flush_now in its finally block.                              *)
LoggerReturns ==
    /\ sched.main = "logging"
    /\ sched' = [sched EXCEPT !.stop_flag = TRUE, !.main = "flush",
                              !.flush.pc = IF sched.current_paths THEN "build" ELSE "done"]
    /\ UNCHANGED <<summary_file, replayVars, detVars, fileVars>>

(* logger.start() raises: main calls flush_now in its finally block *)
LoggerRaises ==
    /\ sched.main = "logging"
    /\ sched' = [sched EXCEPT !.main = "flush",
                              !.flush.pc = IF sched.current_paths THEN "build" ELSE "done"]
    /\ UNCHANGED <<summary_file, replayVars, detVars, fileVars>>

(* SummaryScheduler.stop: the flag is set, join waits at most 3 seconds *)
SchedStop ==
    /\ sched.main = "flush"
    /\ sched.flush.pc = "done"
    /\ sched' = [sched EXCEPT !.stop_flag = TRUE, !.main = "stopped"]
    /\ UNCHANGED <<summary_file, replayVars, detVars, fileVars>>

(* main returns: the process exits and the daemon thread with it *)
ProcessExit ==
    /\ sched.main = "stopped"
    /\ sched' = [sched EXCEPT !.main = "exited"]
    /\ UNCHANGED <<summary_file, replayVars, detVars, fileVars>>

SchedInit ==
    /\ ReplayIdle
    /\ DetectorIdle
    /\ sched = SummaryScheduler
    /\ summary_file = <<>>
    /\ NoLogFile

SchedNext ==
    \/ Attach
    \/ LogAppend
    \/ LoopCheck
    \/ Wake
    \/ \E who \in {"thread", "flush"} : BuildSummary(who)
    \/ \E who \in {"thread", "flush"} : OpenSummary(who)
    \/ \E who \in {"thread", "flush"} : DumpSummary(who)
    \/ \E who \in {"thread", "flush"} : FailSummary(who)
    \/ LoggerReturns
    \/ LoggerRaises
    \/ SchedStop
    \/ ProcessExit

SchedSpec == SchedInit /\ [][SchedNext]_vars

(***************************************************************************)
(* ConcSpec: a reconstruction that runs while the detector appends to the  *)
(* log.  write_line hands one line to the file object and flushes it; the  *)
(* bytes reach the file in one write or, when the operating system takes   *)
(* only a part of them, in two.  A line of which only the first part is in *)
(* the file is a fragment (its text is a cut line); the second part        *)
(* completes it.  The detector writes the events of the end-to-end         *)
(* scenario, in order.  load_events opens the file at some moment and      *)
(* reads it line by line: readline returns a full line, or at the end of   *)
(* the file what is there of the last one.                                 *)
(***************************************************************************)

Fragment(ev, part) == [event |-> "", text |-> "cut", part |-> part, whole |-> ev]

RECURSIVE Written(_)
(* The events whose line is completely in the file f, in order *)
Written(f) ==
    IF f = <<>> THEN <<>>
    ELSE LET p == f[Len(f)]
             rest == Written(SubSeq(f, 1, Len(f) - 1))
         IN IF p.event # "" THEN Append(rest, p)
            ELSE IF p.part = "tail" THEN Append(rest, p.whole)
            ELSE rest

(* The last line of the file lacks its second part *)
MidLine(f) == f # <<>> /\ f[Len(f)].event = "" /\ f[Len(f)].part = "head"

DetectorWrites == EndToEnd

NextWrite == DetectorWrites[Len(Written(log_file)) + 1]

(* write_line: the whole line reaches the file at once *)
WriteLine ==
    /\ ~MidLine(log_file)
    /\ Len(Written(log_file)) < Len(DetectorWrites)
    /\ log_file' = Append(log_file, NextWrite)
    /\ UNCHANGED <<handle, replayVars, detVars, schedVars>>

(* write_line: the first part of the line reaches the file *)
WriteHead ==
    /\ ~MidLine(log_file)
    /\ Len(Written(log_file)) < Len(DetectorWrites)
    /\ log_file' = Append(log_file, Fragment(NextWrite, "head"))
    /\ UNCHANGED <<handle, replayVars, detVars, schedVars>>

(* write_line: the rest of the line and its newline reach the file *)
WriteTail ==
    /\ MidLine(log_file)
    /\ log_file' = Append(log_file, Fragment(log_file[Len(log_file)].whole, "tail"))
    /\ UNCHANGED <<handle, replayVars, detVars, schedVars>>

(* load_events: open(path, "r"); the handle remembers, for the properties, *)
(* how many events were completely written when it was opened.             *)
OpenLog ==
    /\ pc = "closed"
    /\ handle' = [pos |-> 0, at_open |-> Len(Written(log_file))]
    /\ pc' = "parsing"
    /\ UNCHANGED <<log, sessions, current, last_ts, sector_cache, last_weather,
                   first, pending, log_file, detVars, schedVars>>

(* load_events: the next line of the file.  A full line is an event and    *)
(* _parse handles it; a fragment (the first part at the end of the file,   *)
(* or the second part after the first was returned) is rejected by         *)
(* json.loads and skipped.                                                 *)
NextLine ==
    /\ pc = "parsing"
    /\ handle # <<>>
    /\ handle.pos < Len(log_file)
    /\ LET p == log_file[handle.pos + 1]
           joined == p.event = "" /\ p.part = "head" /\ handle.pos + 2 <= Len(log_file)
           line == IF joined THEN p.whole ELSE p
       IN /\ handle' = [handle EXCEPT !.pos = IF joined THEN @ + 2 ELSE @ + 1]
          /\ log' = Append(log, line)
          /\ IF IsJson(line)
             THEN SetBuilder(ParseEvent(Builder, line))
             ELSE UNCHANGED <<sessions, current, last_ts, sector_cache, last_weather>>
    /\ UNCHANGED <<pc, first, pending, log_file, detVars, schedVars>>

(* load_events: readline returns nothing, the for loop of _parse ends *)
EndOfFile ==
    /\ pc = "parsing"
    /\ handle # <<>>
    /\ handle.pos = Len(log_file)
    /\ SetBuilder(ParseEnd(Builder))
    /\ pc' = "built"
    /\ UNCHANGED <<log, first, pending, fileVars, detVars, schedVars>>

ConcInit ==
    /\ log = <<>>
    /\ sessions = <<>>
    /\ current = 0
    /\ last_ts = None
    /\ sector_cache = EmptyCache
    /\ last_weather = NoWeather
    /\ pc = "closed"
    /\ first = <<>>
    /\ pending = <<>>
    /\ DetectorIdle
    /\ SchedulerIdle
    /\ NoLogFile

ConcNext ==
    \/ WriteLine
    \/ WriteHead
    \/ WriteTail
    \/ OpenLog
    \/ NextLine
    \/ EndOfFile

ConcSpec == ConcInit /\ [][ConcNext]_vars

(***************************************************************************)
(* RebuildSpec: the scripted replay, followed by a second call of build()  *)
(* on the same SummaryBuilder object.                                      *)
(***************************************************************************)

(* build() called again on the builder that has built: _parse starts with  *)
(* `current = None` and appends to self.sessions as it is; _sector_cache,  *)
(* _last_ts and _last_weather are as the call before left them.  The tree  *)
(* and document of the call before are kept in `first` for comparison.     *)
BuildAgain ==
    /\ pc = "built"
    /\ first' = <<[sessions |-> sessions, doc |-> build_doc(sessions)]>>
    /\ SetBuilder(ParseAll(Builder, log))
    /\ pc' = "rebuilt"
    /\ UNCHANGED <<log, pending, detVars, schedVars, fileVars>>

RebuildNext == ReadLine \/ EndOfLog \/ BuildAgain

RebuildSpec == ScenarioInit /\ [][RebuildNext]_vars

(***************************************************************************)
(* PipeSpec: the detector and its log file.  The ticks are one second      *)
(* apart, on snapshots that vary the sector index, the lap counter, the    *)
(* sector time and the pit flag; weather and heartbeat are switched off.   *)
(* The lines a tick writes go to the file that is open when they are       *)
(* written: after a rotation the current log file is the new one.          *)
(***************************************************************************)

(* The current log file after a step that wrote the lines out; the file   *)
(* holds the lines without the mark of the file they went to.              *)
FileAfter(f, out) ==
    LET InNewFile(line) == line.file = 1
        fresh == SelectSeq(out, InNewFile)
        Lines(q) == [i \in DOMAIN q |-> [k \in DOMAIN q[i] \ {"file"} |-> q[i][k]]]
    IN IF fresh # <<>> THEN Lines(fresh) ELSE f \o Lines(out)

PipeSnapshots ==
    { [Snapshot EXCEPT !.current_sector_index = sec, !.completed_lap = c,
                       !.last_sector_time = u] :
        sec \in {0, 1, 2}, c \in {0, 1}, u \in {30000, 31000} }
    \cup { [Snapshot EXCEPT !.is_in_pit = TRUE] }

PipeInit == ReplayIdle /\ DetectorNew(0, 0)

PipeTick ==
    \E sm \in PipeSnapshots :
        /\ Tick(sm, 1)
        /\ log_file' = FileAfter(log_file, emitted')
        /\ UNCHANGED handle

PipeNext == StartLogger \/ PipeTick

PipeSpec == PipeInit /\ [][PipeNext]_vars

(***************************************************************************)
(* Properties of the reconstructor                                         *)
(***************************************************************************)

(* The timestamp of the last event of evs that carries one, else None *)
LastTimestamp(evs) ==
    LET stamped == {i \in DOMAIN evs : evs[i].ts # None}
    IN IF stamped = {} THEN None
       ELSE evs[CHOOSE i \in stamped : \A k \in stamped : k <= i].ts

(* The tree a fresh builder reconstructs from evs, and the tree it holds   *)
(* when the last event of evs has been read, before the end-of-log closing *)
Recon(evs) == ParseAll(SummaryBuilder, evs).sessions
Live(evs) == ParseLoop(SummaryBuilder, evs).sessions

StintKept(tp, lp, te) ==
    /\ te.start = tp.start
    /\ te.fuel_start = tp.fuel_start
    /\ te.classification = tp.classification
    /\ lp.end # None => (te.end = tp.end /\ te.fuel_end = tp.fuel_end)
    /\ Len(tp.laps) <= Len(te.laps)
    /\ SubSeq(te.laps, 1, Len(tp.laps)) = tp.laps

SessionKept(tp, lp, te) ==
    /\ te.start = tp.start
    /\ lp.end # None => te.end = tp.end
    /\ Len(tp.stints) <= Len(te.stints)
    /\ \A j \in DOMAIN tp.stints : StintKept(tp.stints[j], lp.stints[j], te.stints[j])

C2_PrefixMonotone ==
    pc = "built" =>
        \A k \in 0..Len(log) :
            LET tp == Recon(SubSeq(log, 1, k))
                lp == Live(SubSeq(log, 1, k))
            IN /\ Len(tp) <= Len(sessions)
               /\ \A i \in DOMAIN tp : SessionKept(tp[i], lp[i], sessions[i])

(* C3: when the log ends with a session open, and a timestamped event was  *)
(* read, the end-of-log closing gives the session and each of its still    *)
(* open stints the timestamp of the last timestamped event of the log.     *)
C3_TruncatedLog ==
    [][(pc = "parsing" /\ pc' = "built" /\ current # 0
            /\ LastTimestamp(log) # None) =>
        LET s == sessions[current]
            t == sessions'[current]
        IN /\ s.end = None => t.end = LastTimestamp(log)
           /\ \A j \in DOMAIN s.stints :
                  s.stints[j].end = None => t.stints[j].end = LastTimestamp(log)]_vars

C3_Witness ==
    /\ pc = "built"
    /\ Len(log) = 4
    /\ log[1].event = "session_start" /\ log[1].ts = None
    /\ log[2].event = "stint_start"
    /\ log[3].event = "wx"
    /\ log[4].event = "hb"
    /\ sessions[1].end = 4
    /\ sessions[1].stints[1].end = 4

(* C4: after a reconstruction of a log whose first event is timestamped    *)
(* (so that a timestamped event precedes every close) every session and    *)
(* every stint has an end.                                                 *)
C4_EveryEndSet ==
    (pc = "built" /\ log # <<>> /\ log[1].ts # None) =>
        \A i \in DOMAIN sessions :
            /\ sessions[i].end # None
            /\ \A j \in DOMAIN sessions[i].stints : sessions[i].stints[j].end # None

(* C5: the end-to-end scenario gives one session block and one stint      *)
(* block; the stint is RACE with best lap 94000 ms, "1:34.000", 2 valid    *)
(* and 0 invalid laps; the session's race best is 94000 ms and its qualy   *)
(* best is null.                                                           *)
C5_EndToEnd ==
    (pc = "built" /\ log = EndToEnd) =>
        LET doc == build_doc(sessions)
        IN /\ Len(doc.session) = 1
           /\ Len(doc.stints) = 1
           /\ doc.stints[1].stint_type = "RACE"
           /\ doc.stints[1].lap_time_ms = 94000
           /\ doc.stints[1].best_lap_time = "1:34.000"
           /\ doc.stints[1].laps_valid = 2
           /\ doc.stints[1].laps_invalid = 0
           /\ doc.session[1].bests.race # <<>>
           /\ doc.session[1].bests.race.lap_time_ms = 94000
           /\ doc.session[1].bests.race.lap_time_hms = "1:34.000"
           /\ doc.session[1].bests.qualy = <<>>

C5_Witness ==
    /\ pc = "built"
    /\ log = EndToEnd
    /\ Len(sessions) = 1
    /\ Len(sessions[1].stints[1].laps) = 2
    /\ sessions[1].end = 6

(* C8: every stint of the tree is classified race when its starting fuel   *)
(* is known and above 20.0, and qualy otherwise.                           *)
C8_RaceOrQualy ==
    \A i \in DOMAIN sessions : \A j \in DOMAIN sessions[i].stints :
        LET st == sessions[i].stints[j]
        IN st.classification =
               (IF st.fuel_start # None /\ st.fuel_start > 2000 THEN "race" ELSE "qualy")

(* C9: no step of the replay changes the classification or the starting   *)
(* fuel of a stint that exists already.                                    *)
C9_ClassificationFixed ==
    [][\A i \in DOMAIN sessions : \A j \in DOMAIN sessions[i].stints :
          /\ i \in DOMAIN sessions'
          /\ j \in DOMAIN sessions'[i].stints
          /\ sessions'[i].stints[j].classification = sessions[i].stints[j].classification
          /\ sessions'[i].stints[j].fuel_start = sessions[i].stints[j].fuel_start]_vars

C9_Witness ==
    /\ pc = "built"
    /\ Len(sessions) = 1
    /\ Len(sessions[1].stints) = 1
    /\ sessions[1].stints[1].fuel_start = 2010
    /\ sessions[1].stints[1].classification = "race"
    /\ Len(sessions[1].stints[1].laps) = 1
    /\ sessions[1].stints[1].laps[1].fuel_end = 500
    /\ sessions[1].stints[1].fuel_end = 500

(***************************************************************************)
(* Properties of the detector                                              *)
(***************************************************************************)

LapCompletes == {i \in DOMAIN emitted : emitted[i].event = "lap_complete"}

SectorSplits == {i \in DOMAIN emitted : emitted[i].event = "sector_split"}

WxEvents == {i \in DOMAIN emitted : emitted[i].event = "wx"}

(* The logical AND of a set of observed flags; null when it is empty *)
AndOf(flags) ==
    IF flags = {} THEN "null" ELSE IF "false" \in flags THEN "false" ELSE "true"

(* C6: validity AND law.  The is_valid of every emitted lap_complete is    *)
(* the AND of the validity flags observed since lap tracking was last      *)
(* reset (previous lap_complete, stint_start or session change) up to and  *)
(* including the emitting tick: null if none was observed, false as soon   *)
(* as one false was observed whatever came after.                          *)
C6_ValidityAnd ==
    \A i \in LapCompletes : emitted[i].is_valid = AndOf(obs)

(* A lap_complete written as invalid on a tick whose own flag is true:     *)
(* the false was observed earlier in the lap.                              *)
C6_Witness ==
    /\ LapCompletes # {}
    /\ obs = {"true", "false"}
    /\ snap.avail /\ snap.is_valid_lap = "true"
    /\ \A i \in LapCompletes : emitted[i].is_valid = "false"

(* C7: canonicalization.  Every lap_ms of an emitted lap_complete is null  *)
(* or an integer in 1..5,999,999 and every split_ms of an emitted          *)
(* sector_split is an integer in 1..5,999,999; a raw time that is 0 or     *)
(* below, 6,000,000 or above, or 2,147,483,647 is written as null (or the  *)
(* split is not written), and 5,999,999 is kept.                           *)
C7_Canonical ==
    LET Bad(raw) == raw # None /\ (raw <= 0 \/ raw >= 6000000 \/ raw = 2147483647)
    IN /\ \A i \in LapCompletes :
             /\ emitted[i].lap_ms = None \/ emitted[i].lap_ms \in 1..5999999
             /\ Bad(snap.last_time) => emitted[i].lap_ms = None
             /\ snap.last_time = 5999999 => emitted[i].lap_ms = 5999999
       /\ \A i \in SectorSplits :
             /\ emitted[i].split_ms \in 1..5999999
             /\ ~Bad(snap.last_sector_time)
             /\ snap.last_sector_time = 5999999 => emitted[i].split_ms = 5999999

(* A lap of 5,999,999 ms is written with its time. *)
C7_Witness ==
    /\ snap.avail /\ snap.last_time = 5999999
    /\ \E i \in LapCompletes : emitted[i].lap_ms = 5999999

(* The condition of the weather rule, between the values of the last wx    *)
(* and the values of a snapshot, `elapsed` after the last wx.              *)
Differs(a, b, delta) ==
    IF a = None \/ b = None THEN a # b ELSE Abs(a - b) >= delta

WxDue(last, sm, elapsed, delta, every) ==
    \/ Differs(last.air, r1(sm.air), delta)
    \/ Differs(last.track, r1(sm.road_temp), delta)
    \/ last.grip # sm.grip
    \/ last.rain # sm.rain
    \/ last.wind_spd # r1(sm.wind_speed)
    \/ last.wind_dir # r1(sm.wind_direction)
    \/ elapsed >= every

IsTick == dpc = "polling" /\ dpc' = "polling" /\ ~logger.stop_flag /\ ~logger'.stop_flag

(* C10: weather throttling.  On a tick with weather enabled a wx is        *)
(* written if and only if, against the values of the last wx, the air or   *)
(* track temperature differs by at least the delta, or grip or rain        *)
(* differ, or wind speed or direction differ, or the time since the last   *)
(* wx is at least the interval; never more than one wx per tick.  So an    *)
(* air delta of 0.4 alone, under the interval, writes none and a delta of  *)
(* 0.6 writes one.                                                         *)
C10_WeatherThrottling ==
    [][ (IsTick /\ snap'.avail /\ logger.wx_every > 0) =>
          /\ Cardinality({i \in DOMAIN emitted' : emitted'[i].event = "wx"}) <= 1
          /\ (\E i \in DOMAIN emitted' : emitted'[i].event = "wx")
                <=> WxDue(logger.last_wx_vals, snap', mono' - logger.last_wx_emit,
                          logger.wx_delta, logger.wx_every) ]_vars

(* A tick that found the air 0.4 away from the last wx, under the          *)
(* interval, with nothing else changed, and wrote no wx.                   *)
C10_Witness ==
    /\ dpc = "polling" /\ snap.avail
    /\ logger.wx_every > 0
    /\ logger.last_wx_vals = [WxVals(snap) EXCEPT !.air = 2000]
    /\ snap.air = 2040
    /\ mono - logger.last_wx_emit < logger.wx_every
    /\ WxEvents = {}

(***************************************************************************)
(* Properties of the reconstructor, continued                              *)
(***************************************************************************)

RECURSIVE LapsWhileOpen(_, _)
(* The number of lap_complete events of evs that arrive after a            *)
(* session_start and before its session_end                                *)
LapsWhileOpen(evs, open) ==
    IF evs = <<>> THEN 0
    ELSE LET e == Head(evs)
         IN IF e.event = "session_start" THEN LapsWhileOpen(Tail(evs), TRUE)
            ELSE IF e.event = "session_end" THEN LapsWhileOpen(Tail(evs), FALSE)
            ELSE (IF open /\ e.event = "lap_complete" THEN 1 ELSE 0)
                     + LapsWhileOpen(Tail(evs), open)

TotalLaps(sess) == SumSeq([i \in DOMAIN sess |-> Len(AllLaps(sess[i]))])

(* C11: no lap is dropped.  At every point of the replay the tree holds    *)
(* as many laps as lap_complete events arrived while a session was open;   *)
(* a lap_complete read while a session is open adds one lap to a stint of  *)
(* that session, and no step shortens the lap list of a stint.             *)
C11_NoLapDropped ==
    /\ [](TotalLaps(sessions) = LapsWhileOpen(log, FALSE))
    /\ [][/\ \A i \in DOMAIN sessions :
                /\ i \in DOMAIN sessions'
                /\ \A j \in DOMAIN sessions[i].stints :
                      /\ j \in DOMAIN sessions'[i].stints
                      /\ Len(sessions'[i].stints[j].laps) >= Len(sessions[i].stints[j].laps)
           /\ (pc = "parsing" /\ current # 0 /\ Len(log') = Len(log) + 1
                  /\ log'[Len(log')].event = "lap_complete") =>
                 Len(AllLaps(sessions'[current])) = Len(AllLaps(sessions[current])) + 1
         ]_vars

(* Two laps in the tree out of three lap_complete events: the first came   *)
(* before any session, the second found no stint, the third found the      *)
(* stint made for the second.                                              *)
C11_Witness ==
    /\ pc = "built"
    /\ Len(log) = 4
    /\ log[1].event = "lap_complete"
    /\ log[2].event = "session_start"
    /\ log[3].event = "lap_complete"
    /\ log[4].event = "lap_complete"
    /\ TotalLaps(sessions) = 2
    /\ Len(sessions[1].stints) = 1

(* C12: only the session the replay is in can be open, and it is the last  *)
(* of the list.  A session_start read while a session is open gives that   *)
(* session and each of its still open stints the end ts (the event's       *)
(* timestamp, or the last timestamp seen when it has none), leaves the     *)
(* closed stints as they are, and appends the new open session.            *)
C12_OneOpenSession ==
    /\ [](current = 0 \/ current = Len(sessions))
    /\ [][(pc = "parsing" /\ Len(log') = Len(log) + 1
              /\ log'[Len(log')].event = "session_start") =>
            LET e == log'[Len(log')]
                fb == IF e.ts # None THEN e.ts ELSE LastTimestamp(log)
            IN /\ Len(sessions') = Len(sessions) + 1
               /\ current' = Len(sessions')
               /\ sessions'[current'] = SessionData(e.ts)
               /\ \A i \in DOMAIN sessions : i # current => sessions'[i] = sessions[i]
               /\ current # 0 =>
                    LET s == sessions[current]
                        t == sessions'[current]
                    IN /\ t.end = fb
                       /\ Len(t.stints) = Len(s.stints)
                       /\ \A j \in DOMAIN s.stints :
                             t.stints[j].end =
                                 (IF s.stints[j].end = None THEN fb ELSE s.stints[j].end)
         ]_vars

(* A session with an open stint, closed by a session_start that carries no *)
(* timestamp: both end at the stint_start's timestamp, the last one seen.  *)
C12_Witness ==
    /\ pc = "parsing"
    /\ Len(log) = 3
    /\ log[2].event = "stint_start"
    /\ log[3].event = "session_start" /\ log[3].ts = None
    /\ current = 2
    /\ sessions[1].end = 2
    /\ sessions[1].stints[1].end = 2
    /\ sessions[2].end = None

(* C13: at every point of the replay the session the replay is in has at   *)
(* most one stint whose end is unset.                                      *)
C13_OneOpenStint ==
    current # 0 =>
        Cardinality({j \in DOMAIN sessions[current].stints :
                        sessions[current].stints[j].end = None}) <= 1

(***************************************************************************)
(* Properties of the aggregator                                            *)
(***************************************************************************)

(* The laps of a session as (stint, lap) positions *)
LapsOf(session) ==
    UNION { {<<j, k>> : k \in DOMAIN session.stints[j].laps} : j \in DOMAIN session.stints }

LapAt(session, p) == session.stints[p[1]].laps[p[2]]

(* The times of the valid timed laps of the stints of a class, and of one  *)
(* stint                                                                  *)
ValidTimes(session, cls) ==
    {LapAt(session, p).lap_ms : p \in
        {q \in LapsOf(session) :
            /\ session.stints[q[1]].classification = cls
            /\ LapAt(session, q).is_valid = "true"
            /\ LapAt(session, q).lap_ms # None}}

StintValidTimes(stint) ==
    {stint.laps[k].lap_ms : k \in
        {n \in DOMAIN stint.laps :
            stint.laps[n].is_valid = "true" /\ stint.laps[n].lap_ms # None}}

BestIs(session, cls, entry) ==
    LET times == ValidTimes(session, cls)
    IN IF times = {} THEN entry = <<>>
       ELSE LET m == CHOOSE x \in times : \A y \in times : x <= y
                holders == {j \in DOMAIN session.stints :
                               /\ session.stints[j].classification = cls
                               /\ m \in StintValidTimes(session.stints[j])
                               /\ \A y \in StintValidTimes(session.stints[j]) : m <= y}
                firstj == CHOOSE j \in holders : \A i \in holders : j <= i
            IN /\ entry # <<>>
               /\ entry.lap_time_ms = m
               /\ entry.fuel_pitout_l = session.stints[firstj].fuel_start

(* C14: best lap per classification.  In every session block the best of   *)
(* race (of qualy) is null when no stint of that class has a valid lap     *)
(* with a time; otherwise its time is the minimum over those laps and its  *)
(* fuel is the starting fuel of the first stint of the class whose own     *)
(* best is that minimum.                                                   *)
C14_BestPerClass ==
    pc = "built" =>
        \A i \in DOMAIN sessions :
            /\ BestIs(sessions[i], "race", session_block(sessions[i]).bests.race)
            /\ BestIs(sessions[i], "qualy", session_block(sessions[i]).bests.qualy)

(* Two race stints with the same best: the fuel of the first is reported;  *)
(* no qualy best.                                                          *)
C14_Witness ==
    /\ pc = "built"
    /\ Len(sessions) = 1
    /\ Len(sessions[1].stints) = 2
    /\ sessions[1].stints[1].fuel_start = 3000
    /\ sessions[1].stints[2].fuel_start = 3100
    /\ best_lap_ms(sessions[1].stints[1]) = 94000
    /\ best_lap_ms(sessions[1].stints[2]) = 94000
    /\ session_block(sessions[1]).bests.race.fuel_pitout_l = 3000
    /\ session_block(sessions[1]).bests.qualy = <<>>

(* C15: lap counts.  In every session block total_closed is the number of  *)
(* laps with a lap time, valid the number with is_valid true, invalid the  *)
(* number with is_valid false; a lap of unknown validity is in neither.    *)
C15_LapCounts ==
    pc = "built" =>
        \A i \in DOMAIN sessions :
            LET s == sessions[i]
                n == session_block(s).laps
                With(P(_)) == Cardinality({p \in LapsOf(s) : P(LapAt(s, p))})
                Timed(lap) == lap.lap_ms # None
                True(lap) == lap.is_valid = "true"
                False(lap) == lap.is_valid = "false"
                Unknown(lap) == lap.is_valid = "null"
            IN /\ n.total_closed = With(Timed)
               /\ n.valid = With(True)
               /\ n.invalid = With(False)
               /\ n.valid + n.invalid + With(Unknown) = Cardinality(LapsOf(s))

(* Three laps: valid without a time, timed with unknown validity, timed    *)
(* and invalid.                                                            *)
C15_Witness ==
    /\ pc = "built"
    /\ Len(sessions) = 1
    /\ Cardinality(LapsOf(sessions[1])) = 3
    /\ \E p \in LapsOf(sessions[1]) :
          LapAt(sessions[1], p).lap_ms = None /\ LapAt(sessions[1], p).is_valid = "true"
    /\ \E p \in LapsOf(sessions[1]) : LapAt(sessions[1], p).is_valid = "null"
    /\ \E p \in LapsOf(sessions[1]) : LapAt(sessions[1], p).is_valid = "false"
    /\ session_block(sessions[1]).laps = [total_closed |-> 2, valid |-> 1, invalid |-> 1]

RECURSIVE DrivingSum(_)
(* The sum over the stints with both endpoints of max(0, end - start) *)
DrivingSum(stints) ==
    IF stints = <<>> THEN 0
    ELSE LET st == Head(stints)
             d == IF st.start = None \/ st.end = None THEN 0
                  ELSE IF st.end < st.start THEN 0
                  ELSE st.end - st.start
         IN d + DrivingSum(Tail(stints))

(* C16: driving duration.  In every session block the driving duration is  *)
(* the sum over the stints with both endpoints of max(0, end - start),     *)
(* reported in minutes to three decimals; it is never negative; a stint    *)
(* whose end precedes its start or that lacks an endpoint adds nothing.    *)
C16_DrivingDuration ==
    pc = "built" =>
        \A i \in DOMAIN sessions :
            LET blk == session_block(sessions[i])
                sum == DrivingSum(sessions[i].stints)
            IN /\ blk.drive_seconds = sum
               /\ blk.drive_seconds >= 0
               /\ blk.driving_duration_min >= 0
               /\ 6 * blk.driving_duration_min - 3 <= 100 * sum
               /\ 100 * sum < 6 * blk.driving_duration_min + 3

(* A first stint that ends before it starts and a second of 4 seconds.     *)
C16_Witness ==
    /\ pc = "built"
    /\ Len(sessions) = 1
    /\ Len(sessions[1].stints) = 2
    /\ sessions[1].stints[1].start = 2
    /\ sessions[1].stints[1].end = 1
    /\ sessions[1].stints[2].start = 5
    /\ sessions[1].stints[2].end = 9
    /\ session_block(sessions[1]).drive_seconds = 4
    /\ session_block(sessions[1]).driving_duration_min = 67

(***************************************************************************)
(* Properties of the detector, continued                                   *)
(***************************************************************************)

(* C19: the polling loop of the detector is left only with the stop flag   *)
(* set; no snapshot makes start() raise out of the loop, the first         *)
(* available snapshot and a change of session key included.                *)
C19_LoopEndsOnStop ==
    /\ dpc # "crashed"
    /\ dpc = "done" => logger.stop_flag

(***************************************************************************)
(* Properties of the periodic task and of the summary file                 *)
(***************************************************************************)

(* C17: once the summary file exists a reader sees, at every moment, one   *)
(* complete summary document: never an empty, truncated or interleaved     *)
(* file.                                                                   *)
C17_AtomicSummary ==
    sched.current_paths => \E v \in 0..MaxVersions : summary_file = Doc(v)

(* C18: the thread of the periodic task has ended only with the stop flag  *)
(* set, and a cycle that fails leaves the thread at the head of its loop,  *)
(* from where the next cycle runs.                                         *)
C18_FailureIsolation ==
    /\ [](sched.thread.pc = "ended" => sched.stop_flag)
    /\ [][(Len(sched'.outcomes) = Len(sched.outcomes) + 1
              /\ sched'.outcomes[Len(sched'.outcomes)] = "failed") =>
             sched'.thread.pc = "check"]_vars

(* A failed cycle followed by a cycle that wrote the summary of the whole  *)
(* log.                                                                    *)
C18_Witness ==
    /\ Len(sched.outcomes) = 2
    /\ sched.outcomes[1] = "failed"
    /\ sched.outcomes[2] = "ok"
    /\ ~sched.stop_flag
    /\ sched.log_len = MaxVersions
    /\ summary_file = Doc(MaxVersions)

(***************************************************************************)
(* Properties of the reconstructor on malformed logs                       *)
(***************************************************************************)

(* The log with the lines that are not events removed *)
EventsOnly(lines) ==
    LET IsEvent(line) == line.event # ""
    IN SelectSeq(lines, IsEvent)

(* C20: malformed lines are skipped.  The replay of a log that holds       *)
(* blank lines, invalid JSON, cut lines or JSON values that are not        *)
(* objects never raises, and reconstructs the tree of the log without      *)
(* those lines.                                                            *)
C20_MalformedSkipped ==
    /\ pc # "raised"
    /\ pc = "built" => sessions = Recon(EventsOnly(log))

(***************************************************************************)
(* Properties of a reconstruction concurrent with the detector             *)
(***************************************************************************)

(* C21: a reconstruction that ran while the detector was appending has     *)
(* built the tree of a prefix of the completely written events, a prefix   *)
(* that holds every event completely written when the file was opened; a   *)
(* line of which only a part was in the file adds nothing and raises       *)
(* nothing.                                                                *)
C21_ConcurrentPrefix ==
    /\ pc # "raised"
    /\ pc = "built" =>
          \E n \in handle.at_open..Len(Written(log_file)) :
              sessions = Recon(SubSeq(Written(log_file), 1, n))

(* C22: a second build() on the same builder over the unchanged log gives  *)
(* the tree of the log, and the session and stint lists of its document    *)
(* are those of the first call.                                            *)
C22_RebuiltFromScratch ==
    pc = "rebuilt" =>
        /\ sessions = Recon(log)
        /\ build_doc(sessions).session = first[1].doc.session
        /\ build_doc(sessions).stints = first[1].doc.stints

(***************************************************************************)
(* Properties of the detector: the rules of one tick                       *)
(***************************************************************************)

(* The number of lines of kind `kind` among the lines out *)
CountKind(out, kind) == Cardinality({i \in DOMAIN out : out[i].event = kind})

(* C23: session boundary.  A session_end is written only with a session    *)
(* open and once per session: the first available snapshot writes a        *)
(* session_start and no session_end; a tick whose session key differs from *)
(* the previous key writes one session_end, then one session_start, before *)
(* anything else; any other tick writes neither; leaving the loop writes   *)
(* one session_end if a session is open and none otherwise.                *)
C23_SessionBoundary ==
    [][ /\ (IsTick /\ snap'.avail) =>
              LET ends == CountKind(emitted', "session_end")
                  starts == CountKind(emitted', "session_start")
                  firstSnapshot == logger.prev_session_key = "null"
                  keyChange == ~firstSnapshot /\ snap'.session_key # logger.prev_session_key
              IN /\ ends > 0 => logger.have_session_open
                 /\ firstSnapshot =>
                        ends = 0 /\ starts = 1 /\ emitted'[1].event = "session_start"
                 /\ keyChange =>
                        /\ ends = 1 /\ starts = 1
                        /\ emitted'[1].event = "session_end"
                        /\ emitted'[2].event = "session_start"
                 /\ (~firstSnapshot /\ ~keyChange) => (ends = 0 /\ starts = 0)
        /\ (dpc = "polling" /\ dpc' = "done") =>
              CountKind(emitted', "session_end") = (IF logger.have_session_open THEN 1 ELSE 0)
      ]_vars

(* inPitEffective of a snapshot *)
InPit(sm) == sm.is_in_pit \/ sm.is_in_pit_lane

(* C24: pit transitions.  The pit flag the detector tracks is the          *)
(* effective pit flag (in pit or in pit lane) of the last processed tick   *)
(* of the session.  A processed tick writes one stint_start when its flag  *)
(* is false and it is the first tick of the session (the first snapshot or *)
(* a changed session key) or the flag was true on the tick before, and     *)
(* none otherwise; it writes one stint_end when its flag is true and was   *)
(* false on the previous tick of the same session, and none otherwise.  A  *)
(* skipped tick and the exit of the loop write no stint event.             *)
C24_PitTransitions ==
    /\ []((dpc = "polling" /\ snap.avail) =>
             /\ logger.prev_in_pit_eff = B3(InPit(snap))
             /\ logger.prev_session_key = snap.session_key)
    /\ [][ /\ (IsTick /\ snap'.avail) =>
                 LET newSession == \/ logger.prev_session_key = "null"
                                   \/ snap'.session_key # logger.prev_session_key
                     before == IF newSession THEN "null" ELSE logger.prev_in_pit_eff
                 IN /\ CountKind(emitted', "stint_start") =
                           (IF ~InPit(snap') /\ before # "false" THEN 1 ELSE 0)
                    /\ CountKind(emitted', "stint_end") =
                           (IF InPit(snap') /\ before = "false" THEN 1 ELSE 0)
           /\ ((IsTick /\ ~snap'.avail) \/ (dpc = "polling" /\ dpc' = "done")) =>
                 /\ CountKind(emitted', "stint_start") = 0
                 /\ CountKind(emitted', "stint_end") = 0
         ]_vars

(* A tick that left the pit lane within a session: a stint_start and no    *)
(* session_start.                                                          *)
C24_Witness ==
    /\ dpc = "polling" /\ snap.avail
    /\ ~InPit(snap)
    /\ CountKind(emitted, "stint_start") = 1
    /\ CountKind(emitted, "session_start") = 0
    /\ logger.prev_in_pit_eff = "false"

(* The first tick of a session: no key yet, or a key that differs *)
NewSession(l, sm) == l.prev_session_key = "null" \/ sm.session_key # l.prev_session_key

(* A raw time as the events carry it: positive and below 100 minutes, not  *)
(* the placeholder 2,147,483,647; otherwise absent                         *)
CanonicalMs(raw) ==
    IF raw # None /\ raw > 0 /\ raw < 6000000 /\ raw # 2147483647 THEN raw ELSE None

(* C25: sector split.  On a processed tick the tracked sector index is the *)
(* one of the tick before, or, when the tick began a stint, the current    *)
(* index (tracking starts anew), or none on the first tick of a session    *)
(* that begins in the pits.  One sector_split is written if and only if    *)
(* tracked and current index are (0,1) or (1,2) and the split time is      *)
(* canonical; its sector_index is the tracked index and its split_ms the   *)
(* canonical time.  After every processed tick the tracked index is the    *)
(* current index, whatever the change was.                                 *)
C25_SectorSplit ==
    [][ (IsTick /\ snap'.avail) =>
          LET cur == snap'.current_sector_index
              tracked == IF CountKind(emitted', "stint_start") = 1 THEN cur
                         ELSE IF NewSession(logger, snap') THEN None
                         ELSE logger.prev_sector_idx
              split == CanonicalMs(snap'.last_sector_time)
              due == /\ (tracked = 0 /\ cur = 1) \/ (tracked = 1 /\ cur = 2)
                     /\ split # None
              splits == {i \in DOMAIN emitted' : emitted'[i].event = "sector_split"}
          IN /\ Cardinality(splits) = (IF due THEN 1 ELSE 0)
             /\ \A i \in splits : /\ emitted'[i].sector_index = tracked
                                  /\ emitted'[i].split_ms = split
             /\ logger'.prev_sector_idx = cur
      ]_vars

(* The index went from 1 to 2 with a split time of 5,999,999 ms: a split   *)
(* of sector 1 is written.                                                 *)
C25_Witness ==
    /\ dpc = "polling" /\ snap.avail
    /\ snap.current_sector_index = 2
    /\ snap.last_sector_time = 5999999
    /\ logger.prev_sector_idx = 2
    /\ \E i \in SectorSplits : emitted[i].sector_index = 1 /\ emitted[i].split_ms = 5999999

(* C26: lap completion.  On a processed tick the tracked lap count and the *)
(* lap-start fuel are those of the tick before, or, when the tick began a  *)
(* stint, the tick's own counter and fuel, or none on the first tick of a  *)
(* session that begins in the pits.  When the counter is above the tracked *)
(* count one lap_complete is written with lap = the counter, is_valid =    *)
(* the AND of the flags observed during the lap, fuel_start = the          *)
(* lap-start fuel and fuel_end = the current fuel; after it the validity   *)
(* accumulator is unknown, the lap-start fuel is the current fuel and the  *)
(* tracked count is the counter.  When the counter is equal or lower no    *)
(* lap_complete is written and the tracked count stays.                    *)
C26_LapCompletion ==
    [][ (IsTick /\ snap'.avail) =>
          LET started == CountKind(emitted', "stint_start") = 1
              fresh == NewSession(logger, snap')
              counter == snap'.completed_lap
              fuel_now == r1(snap'.fuel)
              tracked == IF started THEN counter
                         ELSE IF fresh THEN None ELSE logger.prev_completed
              fuel_at_start == IF started THEN fuel_now
                               ELSE IF fresh THEN None ELSE logger.lap_start_fuel
              laps == {i \in DOMAIN emitted' : emitted'[i].event = "lap_complete"}
          IN IF tracked # None /\ counter > tracked
             THEN /\ Cardinality(laps) = 1
                  /\ \A i \in laps :
                        /\ emitted'[i].lap = counter
                        /\ emitted'[i].is_valid = AndOf(obs')
                        /\ emitted'[i].fuel_start = fuel_at_start
                        /\ emitted'[i].fuel_end = fuel_now
                  /\ logger'.lap_valid_acc = "null"
                  /\ logger'.lap_start_fuel = fuel_now
                  /\ logger'.prev_completed = counter
             ELSE /\ laps = {}
                  /\ tracked # None => logger'.prev_completed = tracked
      ]_vars

(* Lap 2 completed with 28.7 litres left of the 30.0 at its start, after   *)
(* an invalid flag: written invalid, and the next lap starts at 28.7.      *)
C26_Witness ==
    /\ dpc = "polling" /\ snap.avail
    /\ snap.completed_lap = 2
    /\ \E i \in LapCompletes :
          /\ emitted[i].lap = 2
          /\ emitted[i].fuel_start = 3000
          /\ emitted[i].fuel_end = 2870
          /\ emitted[i].is_valid = "false"
    /\ logger.prev_completed = 2
    /\ logger.lap_start_fuel = 2870
    /\ logger.lap_valid_acc = "null"

(* C27: unavailable tick.  A tick on which the snapshot source returns     *)
(* nothing writes no event, creates no file and leaves the whole logger    *)
(* as it was: session key, pit flag, sector index, lap count, validity     *)
(* accumulator, lap-start fuel, weather and heartbeat caches.  Every later *)
(* snapshot is therefore processed as it would have been without the tick. *)
C27_UnavailableTick ==
    [][ (IsTick /\ ~snap'.avail) =>
          /\ emitted' = <<>>
          /\ files' = files
          /\ logger' = logger
          /\ \A sm \in StructSnapshots \cup CanonSnapshots :
                ProcessSnapshot(logger', sm, mono' + 1, mono', files')
                    = ProcessSnapshot(logger, sm, mono' + 1, mono', files)
      ]_vars

(* An unavailable tick in second 2, in the middle of lap 2 of a stint,     *)
(* after an invalid flag.                                                  *)
C27_Witness ==
    /\ dpc = "polling" /\ ~snap.avail
    /\ mono = 2
    /\ emitted = <<>>
    /\ logger.prev_session_key = "K1"
    /\ logger.prev_in_pit_eff = "false"
    /\ logger.prev_completed = 1
    /\ logger.prev_sector_idx = 1
    /\ logger.lap_valid_acc = "false"
    /\ logger.lap_start_fuel = 2870

(***************************************************************************)
(* Properties of the reconstructor: events that find no open stint         *)
(***************************************************************************)

(* The replay is in a session and reads an event of kind `kind` *)
ReadsIn(kind) ==
    /\ pc = "parsing"
    /\ current # 0
    /\ Len(log') = Len(log) + 1
    /\ log'[Len(log')].event = kind

(* The session has no stint, or its most recent stint has an end *)
NoOpenStint(session) ==
    session.stints = <<>> \/ session.stints[Len(session.stints)].end # None

(* C28: a lap_complete read while the session has no open stint (no stint  *)
(* yet, or the most recent one closed by a stint_end) adds a new stint     *)
(* with start = the lap's timestamp and unknown starting fuel, holding     *)
(* that lap alone, and leaves the stints before it as they were.           *)
C28_SyntheticStint ==
    [][ (ReadsIn("lap_complete") /\ NoOpenStint(sessions[current])) =>
          LET e == log'[Len(log')]
              s == sessions[current]
              t == sessions'[current]
              n == Len(t.stints)
          IN /\ n = Len(s.stints) + 1
             /\ SubSeq(t.stints, 1, n - 1) = s.stints
             /\ t.stints[n].start = e.ts
             /\ t.stints[n].fuel_start = None
             /\ Len(t.stints[n].laps) = 1
             /\ t.stints[n].laps[1].lap = e.lap
      ]_vars

(* C29: a stint_end read while the most recent stint of the session is     *)
(* open gives that stint the event's timestamp as end and its fuel as      *)
(* final fuel; a stint_end read while the session has no open stint        *)
(* changes no stint.                                                       *)
C29_StintEndIgnored ==
    [][ ReadsIn("stint_end") =>
          LET e == log'[Len(log')]
              s == sessions[current]
              t == sessions'[current]
              n == Len(s.stints)
          IN IF NoOpenStint(s)
             THEN t.stints = s.stints
             ELSE t.stints = [s.stints EXCEPT ![n].end = e.ts,
                                              ![n].fuel_end = r1(e.fuel_end)]
      ]_vars

(***************************************************************************)
(* Properties of the detector and the reconstructor together               *)
(***************************************************************************)

RECURSIVE SectorsByLap(_, _)
(* For each lap_complete of evs, in order, the split_ms of the             *)
(* sector_split events between the lap boundary before it (lap_complete    *)
(* or stint_start) and itself; acc holds the splits since the boundary.    *)
SectorsByLap(evs, acc) ==
    IF evs = <<>> THEN <<>>
    ELSE LET e == Head(evs)
         IN IF e.event = "lap_complete"
            THEN <<acc>> \o SectorsByLap(Tail(evs), <<>>)
            ELSE IF e.event = "stint_start" THEN SectorsByLap(Tail(evs), <<>>)
            ELSE IF e.event = "sector_split"
            THEN SectorsByLap(Tail(evs), Append(acc, e.split_ms))
            ELSE SectorsByLap(Tail(evs), acc)

(* C30: sector attachment.  In the reconstruction of the log file the      *)
(* detector has written, every lap holds, in order, the split times of     *)
(* the sector_split events written between the lap boundary before it and  *)
(* its own lap_complete.                                                   *)
C30_SectorAttachment ==
    log_file # <<>> =>
        LET tree == Recon(log_file)
            laps == AllLaps(tree[1])
        IN /\ Len(tree) = 1
           /\ [n \in DOMAIN laps |-> laps[n].sectors_ms] = SectorsByLap(log_file, <<>>)

(***************************************************************************)
(* Properties of the reconstructor: weather at the start of a stint        *)
(***************************************************************************)

(* C31: a wx read in a session fills the weather-at-start air of the open  *)
(* stint when it is unset and the event carries an air temperature; it     *)
(* changes no stint whose weather-at-start air has a value, and no stint   *)
(* that a stint_end has closed.                                            *)
C31_WxBackfill ==
    [][ ReadsIn("wx") =>
          LET e == log'[Len(log')]
              s == sessions[current]
              t == sessions'[current]
              n == Len(s.stints)
          IN /\ Len(t.stints) = n
             /\ \A j \in DOMAIN s.stints :
                   t.stints[j] =
                       (IF /\ j = n
                           /\ s.stints[j].end = None
                           /\ s.stints[j].weather_air_start = None
                           /\ e.air_temp # None
                        THEN [s.stints[j] EXCEPT !.weather_air_start = e.air_temp]
                        ELSE s.stints[j])
      ]_vars

(***************************************************************************)
(* Properties of the periodic task: cancellation                           *)
(***************************************************************************)

(* The thread of the periodic task is inside a summary cycle *)
InCycle == sched.thread.pc \in {"build", "open", "dump"}

(* With the stop flag set the head of the loop of _run leads only to the   *)
(* end of the thread, and a thread that ended stays ended: a cycle starts  *)
(* only from the sleep the thread was in when the flag was set.            *)
AtMostOneFurtherCycle ==
    /\ [][(sched.stop_flag /\ sched.thread.pc = "check") =>
             sched'.thread.pc \in {"check", "ended"}]_vars
    /\ [][sched.thread.pc = "ended" => sched'.thread.pc = "ended"]_vars

(* C32: cancellation.  After the stop flag is set the task starts at most  *)
(* one further summary cycle and then ends, and a cycle in progress is     *)
(* never cut short: it runs to its end, also when main returns.            *)
C32_Cancellation ==
    /\ AtMostOneFurtherCycle
    /\ [](sched.main = "exited" => ~InCycle)

(***************************************************************************)
(* LapTimeSpec: scripted replay of one stint of three laps whose lap times *)
(* are unknown, ordinary, or values outside the canonical range (zero,     *)
(* negative, the upper limit, the "no time" sentinel of the game); the     *)
(* first lap is valid or invalid.                                          *)
(***************************************************************************)

LapTimes == {None, 0, -5, 94000, 94001, 100 * 60 * 1000, SENTINEL_LAST_BEST_MS}

LapTimeScripts ==
    { << Ev("session_start", 1), StintStart(2, 3000),
         LapComplete(3, 1, a, v, 500, 500),
         LapComplete(4, 2, b, "true", 500, 500),
         LapComplete(5, 3, c, "true", 500, 500),
         Ev("session_end", 6) >> :
        a \in LapTimes, b \in LapTimes, c \in LapTimes, v \in {"true", "false"} }

LapTimeInit ==
    /\ log = <<>>
    /\ sessions = <<>>
    /\ current = 0
    /\ last_ts = None
    /\ sector_cache = EmptyCache
    /\ last_weather = NoWeather
    /\ pc = "parsing"
    /\ first = <<>>
    /\ pending \in LapTimeScripts
    /\ DetectorIdle
    /\ SchedulerIdle
    /\ NoLogFile

LapTimeNext == ReadLine \/ EndOfLog

LapTimeSpec == LapTimeInit /\ [][LapTimeNext]_vars

(***************************************************************************)
(* Properties of the aggregator: averages and canonical lap times          *)
(***************************************************************************)

(* The stints of the tree *)
AllStints == {sessions[i].stints[j] : <<i, j>> \in
                 {p \in (DOMAIN sessions) \X (1..MaxEvents + 3) :
                      p[2] \in DOMAIN sessions[p[1]].stints}}

(* A lap time of the canonical range *)
IsCanonical(ms) ==
    ms # None /\ ms > 0 /\ ms < 100 * 60 * 1000 /\ ms # SENTINEL_LAST_BEST_MS

(* The lap times of a stint that are known *)
KnownTimes(stint) ==
    LET known == SelectSeq(stint.laps, LAMBDA lap : lap.lap_ms # None)
    IN [i \in DOMAIN known |-> known[i].lap_ms]

(* m is an integer nearest to total / n *)
IsNearest(m, total, n) ==
    LET d == m * n - total IN 2 * (IF d < 0 THEN -d ELSE d) <= n

(* C33: the average of a stint is the arithmetic mean of the times of all  *)
(* its laps with a known time, valid or not, rounded to the nearest        *)
(* millisecond, and none when no lap has a known time.  Checked on the     *)
(* stints whose known times are all canonical.                             *)
C33_AverageLap ==
    pc = "built" =>
        \A stint \in AllStints :
            LET times == KnownTimes(stint)
            IN (\A i \in DOMAIN times : IsCanonical(times[i])) =>
                  IF times = <<>> THEN average_lap_ms(stint) = None
                  ELSE /\ average_lap_ms(stint) # None
                       /\ IsNearest(average_lap_ms(stint), SumSeq(times), Len(times))

(* The laps of a session whose time is canonical *)
CanonicalLaps(session) ==
    SelectSeq(AllLaps(session), LAMBDA lap : IsCanonical(lap.lap_ms))

(* C34: a lap time that is not canonical (zero or negative, at or above    *)
(* the upper limit, the sentinel) counts as unknown: the lap is not in     *)
(* total_closed, its time is never a best and never enters an average.     *)
C34_CanonicalLapTimes ==
    pc = "built" =>
        /\ \A i \in DOMAIN sessions :
               session_block(sessions[i]).laps.total_closed =
                   Len(CanonicalLaps(sessions[i]))
        /\ \A stint \in AllStints :
               LET canon == SelectSeq(stint.laps, LAMBDA lap : IsCanonical(lap.lap_ms))
                   times == [i \in DOMAIN canon |-> canon[i].lap_ms]
               IN /\ best_lap_ms(stint) # None => IsCanonical(best_lap_ms(stint))
                  /\ IF times = <<>> THEN average_lap_ms(stint) = None
                     ELSE /\ average_lap_ms(stint) # None
                          /\ average_lap_ms(stint) * Len(times) <= SumSeq(times)
                          /\ SumSeq(times) < (average_lap_ms(stint) + 1) * Len(times)

(***************************************************************************)
(* SessionLogSpec: the detector and its log file over several sessions and *)
(* stints, with weather (--wx-every 2) and heartbeat (--hb-every 3)        *)
(* switched on.  The ticks are one second apart, on snapshots that vary    *)
(* the session key, the pit flag, the lap counter (which may drop), the    *)
(* fuel and the sector index.                                              *)
(***************************************************************************)

SessionLogSnapshots ==
    { [Snapshot EXCEPT !.completed_lap = c] : c \in {0, 1, 2} }
    \cup { [Snapshot EXCEPT !.completed_lap = c, !.fuel = 2874] : c \in {1, 2} }
    \cup { [Snapshot EXCEPT !.current_sector_index = 1] }
    \cup { [Snapshot EXCEPT !.is_in_pit = TRUE, !.fuel = 2874] }
    \cup { [Snapshot EXCEPT !.session_key = "K2", !.completed_lap = c] : c \in {0, 1} }

SessionLogInit == ReplayIdle /\ DetectorNew(2, 3)

SessionLogTick ==
    \E sm \in SessionLogSnapshots :
        /\ Tick(sm, 1)
        /\ log_file' = FileAfter(log_file, emitted')
        /\ UNCHANGED handle

SessionLogNext == StartLogger \/ SessionLogTick

SessionLogSpec == SessionLogInit /\ [][SessionLogNext]_vars

(***************************************************************************)
(* Properties of the log files the detector writes                         *)
(***************************************************************************)

(* The positions of the log file that hold an event of a kind *)
At(kinds) == {i \in DOMAIN log_file : log_file[i].event \in kinds}

(* The stint_start and stint_end events of the log file, in order *)
StintMarks ==
    SelectSeq(log_file, LAMBDA e : e.event \in {"stint_start", "stint_end"})

(* The stints a replay of the log file has open before the end of the log *)
OpenStints ==
    LET tree == Live(log_file)
    IN {p \in (DOMAIN tree) \X (1..Len(log_file)) :
           /\ p[2] \in DOMAIN tree[p[1]].stints
           /\ tree[p[1]].stints[p[2]].end = None}

(* C35: in the events the detector writes for one session stint_start and  *)
(* stint_end strictly alternate, beginning with a stint_start, and the     *)
(* replay of the log never has two stints open at once.                    *)
C35_StintsAlternate ==
    /\ \A i \in DOMAIN StintMarks :
           StintMarks[i].event = (IF i % 2 = 1 THEN "stint_start" ELSE "stint_end")
    /\ Cardinality(OpenStints) <= 1

(* A stint that was ended and another that was started after it, the       *)
(* second still open in the replay.                                        *)
C35_Witness ==
    /\ Len(StintMarks) = 3
    /\ Cardinality(OpenStints) = 1

(* The lines a step wrote to the file that was open when the step began,   *)
(* in a step that opened a new file                                        *)
LinesToOldFile(out) ==
    IF \E j \in DOMAIN out : out[j].file = 1
    THEN SelectSeq(out, LAMBDA e : e.file = 0)
    ELSE <<>>

(* C36: a log file holds at most one session_start, and every stint_start, *)
(* stint_end, sector_split, lap_complete, wx and hb of the file comes      *)
(* after it; the events of two sessions are never in the same file: a step *)
(* that opens a new file writes nothing but session_end to the old one.    *)
C36_OneSessionPerFile ==
    /\ [](Cardinality(At({"session_start"})) <= 1)
    /\ [](\A i \in At({"stint_start", "stint_end", "sector_split",
                         "lap_complete", "wx", "hb"}) :
             \E j \in At({"session_start"}) : j < i)
    /\ [][\A i \in DOMAIN LinesToOldFile(emitted') :
             LinesToOldFile(emitted')[i].event = "session_end"]_vars

(* The file of a second session, just opened on a change of the session   *)
(* key: the step wrote to the old file and then to the new one, which      *)
(* begins with its session_start and holds a stint_start, a wx and a hb.   *)
C36_Witness ==
    /\ snap.avail /\ snap.session_key = "K2"
    /\ LinesToOldFile(emitted) # <<>>
    /\ log_file # <<>> /\ log_file[1].event = "session_start"
    /\ {log_file[i].event : i \in DOMAIN log_file} =
           {"session_start", "stint_start", "wx", "hb"}

(* The position of the last stint_start or lap_complete before position i  *)
(* of the log file, 0 when there is none                                   *)
LapAnchor(i) ==
    LET before == {j \in At({"stint_start", "lap_complete"}) : j < i}
    IN IF before = {} THEN 0 ELSE CHOOSE j \in before : \A k \in before : k <= j

(* The lap count an anchor carries: the counter captured by a stint_start, *)
(* the number of a lap_complete                                            *)
LapCountAt(j) ==
    IF log_file[j].event = "stint_start" THEN log_file[j].completed_lap
    ELSE log_file[j].lap

(* C37: within one session the lap numbers of the lap_complete events      *)
(* between two stint_start events are strictly increasing, each greater    *)
(* than the lap count the preceding stint_start captured; a tick whose lap *)
(* counter is not above the tracked count writes no lap_complete, also     *)
(* after the counter dropped and rose again.                               *)
C37_LapNumbersIncrease ==
    /\ [](\A i \in At({"lap_complete"}) :
             LapAnchor(i) # 0 => log_file[i].lap > LapCountAt(LapAnchor(i)))
    /\ [][(/\ IsTick /\ snap'.avail
           /\ snap'.session_key = logger.prev_session_key
           /\ "stint_start" \notin Kinds(emitted')
           /\ logger.prev_completed # None
           /\ snap'.completed_lap <= logger.prev_completed) =>
             /\ "lap_complete" \notin Kinds(emitted')
             /\ logger'.prev_completed = logger.prev_completed]_vars

(* A stint that began with the counter at 1 and had lap 2 completed; the   *)
(* counter then dropped to 0 (a sector split of lap 0 was written) and     *)
(* rose to 1: no further lap_complete, the tracked count is still 2.       *)
C37_Witness ==
    /\ \E i \in At({"stint_start"}) : log_file[i].completed_lap = 1
    /\ \E i \in At({"lap_complete"}), j \in At({"sector_split"}) :
          /\ At({"lap_complete"}) = {i}
          /\ log_file[i].lap = 2
          /\ i < j /\ log_file[j].lap = 0
    /\ snap.avail /\ snap.completed_lap = 1
    /\ logger.prev_completed = 2

(* The fuel at which the lap after an anchor began: the fuel_start of a    *)
(* stint_start, the fuel_end of a lap_complete                             *)
FuelAt(j) ==
    IF log_file[j].event = "stint_start" THEN log_file[j].fuel_start
    ELSE log_file[j].fuel_end

(* C38: the fuel chain.  Within one session a lap_complete that follows    *)
(* another with no stint_start between them has the fuel_end of the        *)
(* earlier as its fuel_start, and the first lap_complete after a           *)
(* stint_start has the fuel_start of that stint_start.                     *)
C38_FuelChain ==
    \A i \in At({"lap_complete"}) :
        LapAnchor(i) # 0 => log_file[i].fuel_start = FuelAt(LapAnchor(i))

(* A stint that started with 30.0 litres; its first lap ended with 28.7    *)
(* litres and its second lap began with them.                              *)
C38_Witness ==
    \E i, j \in At({"lap_complete"}) :
        /\ i < j /\ LapAnchor(j) = i
        /\ LapAnchor(i) # 0 /\ log_file[LapAnchor(i)].event = "stint_start"
        /\ log_file[LapAnchor(i)].fuel_start = 3000
        /\ log_file[i].fuel_start = 3000 /\ log_file[i].fuel_end = 2870
        /\ log_file[j].fuel_start = 2870

(***************************************************************************)
(* PairSpec: the file pairs, the periodic task and the shutdown of main.   *)
(* A pair is named by its token (1, 2, ...).  log_file[t] tells whether    *)
(* the log of pair t is absent, empty of sessions or holds a session;      *)
(* summary_file[t] is the summary file of pair t: absent, open (truncated  *)
(* by open(..., "w") and not yet written) or a document, which names in    *)
(* its "file" field the log it was built from and has sessions or none.    *)
(* The LogPaths object a writer holds is the token of its pair; 0 is None. *)
(***************************************************************************)

(* Bound of PairSpec: the number of pairs the detector creates *)
MaxPairs == 3

Pairs == 1..MaxPairs

NoSummary == [state |-> "absent", file |-> 0, session |-> FALSE]

Truncated == [state |-> "open", file |-> 0, session |-> FALSE]

SummaryDoc(t, has_session) == [state |-> "doc", file |-> t, session |-> has_session]

(* A _write_summary that opens the summary path of the pair attached at    *)
(* the time of the open                                                    *)
SummaryPathCurrent(sc, who) == sc.current_paths

(* _write_summary: `open(paths.json_path, "w")`, the summary path of the   *)
(* LogPaths object it was called with                                      *)
SummaryPath(sc, who) == sc[who].paths

PairWriter(at) ==
    [pc |-> at, paths |-> 0, doc |-> NoSummary, target |-> 0, unlinked |-> FALSE]

(* SummaryScheduler.__init__ and start(), main in logger.start();          *)
(* current_paths is also logger.paths: _open_new_file sets both.           *)
PairScheduler ==
    [stop_flag |-> FALSE, current_paths |-> 0, cycles |-> 0, outcomes |-> {},
     thread |-> PairWriter("check"), flush |-> PairWriter("idle"),
     summary_snapshot |-> "none", main |-> "logging"]

PairAlive == sched.main # "returned"

(* The end of a _write_summary: the thread goes back to the head of its    *)
(* loop, flush_now returns the summary to main.                            *)
PairReturned(who, sc) ==
    LET done == [sc EXCEPT !.outcomes = @ \cup {[who |-> who, paths |-> sc[who].paths,
                                                 current |-> sc.current_paths]}]
    IN IF who = "thread" THEN [done EXCEPT !.thread.pc = "check"]
       ELSE [done EXCEPT !.flush.pc = "done",
                         !.summary_snapshot = IF sc.flush.doc.session THEN "full"
                                              ELSE "empty"]

(* _write_summary raises: _run prints and loops, main sets the snapshot to *)
(* None.                                                                   *)
PairRaised(who, sc) ==
    IF who = "thread" THEN [sc EXCEPT !.thread.pc = "check"]
    ELSE [sc EXCEPT !.flush.pc = "done", !.summary_snapshot = "none"]

(* logger._open_new_file: create() touches the log and writes the skeleton *)
(* summary, on_rotate attaches the new pair.                               *)
Rotate ==
    /\ sched.main = "logging"
    /\ sched.current_paths < MaxPairs
    /\ LET t == sched.current_paths + 1
       IN /\ log_file' = [log_file EXCEPT ![t] = "empty"]
          /\ summary_file' = [summary_file EXCEPT ![t] = SummaryDoc(t, FALSE)]
          /\ sched' = [sched EXCEPT !.current_paths = t]
    /\ UNCHANGED <<handle, replayVars, detVars>>

(* The detector writes the session_start of the session; the pair opened   *)
(* by start() before the first snapshot never receives one.                *)
WriteSessionStart ==
    /\ sched.main = "logging"
    /\ sched.current_paths >= 2
    /\ log_file[sched.current_paths] = "empty"
    /\ log_file' = [log_file EXCEPT ![sched.current_paths] = "session"]
    /\ UNCHANGED <<sched, summary_file, handle, replayVars, detVars>>

(* _run: `while not self.stop_flag` *)
PairLoopCheck ==
    /\ PairAlive
    /\ sched.thread.pc = "check"
    /\ sched' = [sched EXCEPT !.thread.pc = IF sched.stop_flag THEN "ended" ELSE "sleep"]
    /\ UNCHANGED <<summary_file, fileVars, replayVars, detVars>>

(* _run: the sleep is over; `if not self.current_paths: continue`, else    *)
(* _write_summary(self.current_paths)                                      *)
PairWake ==
    /\ PairAlive
    /\ sched.thread.pc = "sleep"
    /\ IF sched.current_paths # 0
       THEN /\ sched.cycles < MaxCycles
            /\ sched' = [sched EXCEPT !.thread.pc = "build", !.cycles = @ + 1,
                                      !.thread.paths = sched.current_paths]
       ELSE sched' = [sched EXCEPT !.thread.pc = "check"]
    /\ UNCHANGED <<summary_file, fileVars, replayVars, detVars>>

(* _write_summary: SummaryBuilder(paths.ndjson_path).build(); load_events  *)
(* raises when the log does not exist.                                     *)
PairBuild(who) ==
    /\ PairAlive
    /\ sched[who].pc = "build"
    /\ LET t == sched[who].paths
       IN sched' = IF log_file[t] = "absent" THEN PairRaised(who, sched)
                   ELSE [sched EXCEPT ![who].pc = "open",
                                      ![who].doc = SummaryDoc(t, log_file[t] = "session")]
    /\ UNCHANGED <<summary_file, fileVars, replayVars, detVars>>

(* _write_summary: open(paths.json_path, "w") creates or truncates *)
PairOpen(who) ==
    /\ PairAlive
    /\ sched[who].pc = "open"
    /\ LET t == SummaryPath(sched, who)
       IN /\ summary_file' = [summary_file EXCEPT ![t] = Truncated]
          /\ sched' = [sched EXCEPT ![who].pc = "dump", ![who].target = t,
                                    ![who].unlinked = FALSE]
    /\ UNCHANGED <<fileVars, replayVars, detVars>>

(* _write_summary: json.dump and the close of the file; a file that was    *)
(* removed while open is written without coming back.                      *)
PairDump(who) ==
    /\ PairAlive
    /\ sched[who].pc = "dump"
    /\ summary_file' = IF sched[who].unlinked THEN summary_file
                       ELSE [summary_file EXCEPT ![sched[who].target] = sched[who].doc]
    /\ sched' = PairReturned(who, sched)
    /\ UNCHANGED <<fileVars, replayVars, detVars>>

(* _write_summary raises at the open or in a write *)
PairFail(who) ==
    /\ PairAlive
    /\ sched[who].pc \in {"open", "dump"}
    /\ sched' = PairRaised(who, sched)
    /\ UNCHANGED <<summary_file, fileVars, replayVars, detVars>>

(* logger.start() returns (the signal handler set both stop flags) or      *)
(* raises; main calls flush_now in its finally block.                      *)
PairLoggerEnds ==
    /\ sched.main = "logging"
    /\ \E by_signal \in BOOLEAN :
          sched' = [sched EXCEPT !.stop_flag = by_signal, !.main = "flush",
                                 !.flush.pc = IF sched.current_paths # 0 THEN "build"
                                              ELSE "done",
                                 !.flush.paths = sched.current_paths]
    /\ UNCHANGED <<summary_file, fileVars, replayVars, detVars>>

(* SummaryScheduler.stop: the flag is set, join(timeout=3) *)
PairStop ==
    /\ sched.main = "flush"
    /\ sched.flush.pc = "done"
    /\ sched' = [sched EXCEPT !.stop_flag = TRUE, !.main = "join"]
    /\ UNCHANGED <<summary_file, fileVars, replayVars, detVars>>

(* join returns, the thread ended or the 3 seconds over; main tests        *)
(* `(not summary_snapshot or not summary_snapshot.get("session")) and      *)
(* logger.paths`.                                                          *)
JoinReturns ==
    /\ sched.main = "join"
    /\ sched' = [sched EXCEPT !.main =
                    IF sched.summary_snapshot # "full" /\ sched.current_paths # 0
                    THEN "remove_log" ELSE "returning"]
    /\ UNCHANGED <<summary_file, fileVars, replayVars, detVars>>

(* remove_pair: os.remove(paths.ndjson_path) *)
RemoveLog ==
    /\ sched.main = "remove_log"
    /\ log_file' = [log_file EXCEPT ![sched.current_paths] = "absent"]
    /\ sched' = [sched EXCEPT !.main = "remove_summary"]
    /\ UNCHANGED <<summary_file, handle, replayVars, detVars>>

(* remove_pair: os.remove(paths.json_path); a writer that has the file     *)
(* open keeps writing to the removed file.                                 *)
RemoveSummary ==
    /\ sched.main = "remove_summary"
    /\ summary_file' = [summary_file EXCEPT ![sched.current_paths] = NoSummary]
    /\ sched' = [sched EXCEPT !.main = "returning",
                              !.thread.unlinked =
                                  \/ @
                                  \/ /\ sched.thread.pc = "dump"
                                     /\ sched.thread.target = sched.current_paths]
    /\ UNCHANGED <<fileVars, replayVars, detVars>>

(* main returns 0 *)
MainReturns ==
    /\ sched.main = "returning"
    /\ sched' = [sched EXCEPT !.main = "returned"]
    /\ UNCHANGED <<summary_file, fileVars, replayVars, detVars>>

PairInit ==
    /\ ReplayIdle
    /\ DetectorIdle
    /\ sched = PairScheduler
    /\ summary_file = [t \in Pairs |-> NoSummary]
    /\ log_file = [t \in Pairs |-> "absent"]
    /\ handle = <<>>

PairNext ==
    \/ Rotate
    \/ WriteSessionStart
    \/ PairLoopCheck
    \/ PairWake
    \/ \E who \in {"thread", "flush"} : PairBuild(who)
    \/ \E who \in {"thread", "flush"} : PairOpen(who)
    \/ \E who \in {"thread", "flush"} : PairDump(who)
    \/ \E who \in {"thread", "flush"} : PairFail(who)
    \/ PairLoggerEnds
    \/ PairStop
    \/ JoinReturns
    \/ RemoveLog
    \/ RemoveSummary
    \/ MainReturns

PairSpec == PairInit /\ [][PairNext]_vars

(***************************************************************************)
(* Properties of the file pairs                                            *)
(***************************************************************************)

(* C39: every summary document in the summary file of a pair was built     *)
(* from the log of that pair, whenever the detector rotates to a new pair: *)
(* before, during or after the cycle or the final flush that writes it.    *)
C39_SummaryOfOwnLog ==
    \A t \in Pairs :
        summary_file[t].state = "doc" => summary_file[t].file = t

(* A cycle of the thread on pair 2 that ended after the detector rotated   *)
(* to pair 3: the summary of pair 2 holds the session of its own log, and  *)
(* the summary of pair 3 is untouched.                                     *)
C39_Witness ==
    /\ [who |-> "thread", paths |-> 2, current |-> 3] \in sched.outcomes
    /\ summary_file[2] = SummaryDoc(2, TRUE)
    /\ summary_file[3] = SummaryDoc(3, FALSE)

(* C40: shutdown cleanup.  When main returns after a final flush that      *)
(* produced no summary, or a summary with no session, neither file of the  *)
(* current pair exists, whatever the periodic task is doing.               *)
C40_ShutdownCleanup ==
    (sched.main = "returned" /\ sched.summary_snapshot # "full"
        /\ sched.current_paths # 0) =>
        /\ log_file[sched.current_paths] = "absent"
        /\ summary_file[sched.current_paths].state = "absent"
====
